---- MODULE Spec2Model ----
(***************************************************************************)
(* Model of the Vietnam coffee weather pipeline scripts:                   *)
(*   scripts/01_inspect_and_standardise.py  (standardisation)              *)
(*   scripts/02_areal_aggregation.py        (areal aggregation)            *)
(*   scripts/04_indices_and_anomalies.py    (indices, anomalies)           *)
(*   scripts/05_visualise.py                (figure generation)            *)
(*                                                                         *)
(* Numbers are exact rationals <<n, d>> with d > 0, reduced; the IEEE      *)
(* not-a-number is <<0, 0>>.  NaN is absorbing for + - * / and every       *)
(* comparison with NaN is false, as in numpy.                              *)
(***************************************************************************)
EXTENDS Integers, Sequences, FiniteSets, TLC

VARIABLES
    \* ---- 02_areal_aggregation.py: aggregate_to_regions
    ds,           \* the grid: [var -> [time -> [cell -> value]]]
    gdf,          \* the boundary table: sequence of rows [geoid, geometry]
    output_data,  \* [var -> [time -> [idx -> value]]]
    branch,       \* per idx: which branch assigned the column ("none" before)
    todo,         \* loop indices not yet processed
    pc,           \* "idle" | "loop" | "done"
    \* ---- 04_indices_and_anomalies.py: compute_daily_indices
    ds_numeric,   \* the regional daily series: [var -> [time -> value]]
    indices,      \* the returned dataset: [var -> [time -> value]]
    indices_attrs,\* its units attributes: [var -> units]
    idx_pc,       \* "idle" | "input" | "done" | "recent_done"
    ds_recent,    \* ds_numeric.sel(time=slice(...)) of main()
    indices_recent, \* the indices computed from ds_recent
    \* ---- 04_indices_and_anomalies.py: compute_anomalies
    ds_actual,    \* the indices dataset: [var -> [time -> value]]
    ds_clim,      \* the climatology: [var -> [day of year -> [loc, scale]]]
    anomalies,    \* returned: [var -> [time -> value]]
    z_scores,     \* returned: [name -> [time -> value or flag]]
    anom_pc,      \* "idle" | "input" | "done"
    attrs_in,     \* attrs["long_name"] of the variables of both inputs
    attrs_out,    \* attrs["long_name"] of the variables of both outputs
    \* ---- main() of 04_indices_and_anomalies.py and of 05_visualise.py
    script,       \* the script that runs: "04" | "05" ("none" when idle)
    files,        \* the stores that exist on disk
    printed,      \* the messages printed so far
    produced,     \* the figures and stores written so far
    retrend,      \* whether trend parameters were loaded: "unset" | "yes" | "no"
    run_pc,       \* the position in main(), "done", or "crashed" (unhandled exception)
    \* ---- main() of 01_inspect_and_standardise.py
    raw_ds,       \* the raw store: ERA5 variable name -> grid
    std_ds,       \* ds of main(): [data, units, long_name, Conventions]
    interim,      \* the store written to INTERIM_PATH ("none" before the write)
    std_pc,       \* the position in main(), "done", or "crashed"
    \* ---- main.py: the synthetic yield series
    entry,        \* the function that runs: "main" | "generate_monthly_data"
    yield_data,   \* data / annual_data: the list of YieldDataPoint
    records,      \* the records list of the loop that runs
    summary,      \* the key figures print_summary prints
    charts,       \* the series drawn by the chart functions, per output file
    dp_i,         \* loop position: index into the data list
    month,        \* loop position: month of generate_monthly_data
    yield_pc,     \* the position in main() or in generate_monthly_data()
    \* ---- the scripts 01 .. 05 as runs over the file system
    disk,         \* the paths that exist
    read_by,      \* path -> the scripts that have read it
    written_by,   \* path -> the scripts that have written it
    crashed,      \* the scripts whose last run ended in an exception
    runs03,       \* how many times 03_climatology.py has been run
    store_run,    \* per store of step 03: the run that wrote it (0: none)
    loaded04,     \* the runs whose climatology and trend step 04 last loaded
    \* ---- 02_areal_aggregation.py: extract_vietnam_boundaries and main()
    bnd_table,    \* the table at BOUNDARIES_PATH: sequence of rows
    boundaries,   \* the returned dict: level -> rows (<<>> before the call)
    parquet,      \* the boundary files written: path -> rows
    agg_out,      \* per level done: geoid, geometry used and region_name
    bnd_level,    \* loop position of main(): index into the levels
    bnd_pc,       \* "idle" | "extract" | "aggregate" | "done"
    \* ---- 05_visualise.py: the region selection and plot_dayofyear_indices
    plot_geoids,  \* ds_agg.geoid.values
    plot_gdf,     \* the ADM1 boundary rows: sequence of [geoid, geoname]
    coffee_ids,   \* the region selection of main()
    plot_printed, \* the messages printed so far
    selections,   \* figure -> the geoids its plot function selected
    call_i,       \* position of main(): index into the plot calls
    season_days,  \* the full indices: season year -> [rows, valid]
    season_i,     \* loop position: index into the seasons
    all_season_data, \* the seasons appended for the climatology
    grey_lines,   \* the seasons drawn as historical lines
    n_historical, \* the season count of the figure title (-1 before)
    plot_pc       \* "idle" | "coffee_ids" | "plot" | "seasons" | "title" | "done"

aggVars == <<ds, gdf, output_data, branch, todo, pc>>
idxVars == <<ds_numeric, indices, indices_attrs, idx_pc, ds_recent, indices_recent>>
anomVars == <<ds_actual, ds_clim, anomalies, z_scores, anom_pc, attrs_in, attrs_out>>
runVars == <<script, files, printed, produced, retrend, run_pc>>
stdVars == <<raw_ds, std_ds, interim, std_pc>>
pipeVars == <<disk, read_by, written_by, crashed, runs03, store_run, loaded04>>
bndVars == <<bnd_table, boundaries, parquet, agg_out, bnd_level, bnd_pc>>
plotVars == <<plot_geoids, plot_gdf, coffee_ids, plot_printed, selections, call_i,
              season_days, season_i, all_season_data, grey_lines, n_historical, plot_pc>>
yieldVars == <<entry, yield_data, records, summary, charts, dp_i, month, yield_pc>>

vars == <<ds, gdf, output_data, branch, todo, pc,
          ds_numeric, indices, indices_attrs, idx_pc, ds_recent, indices_recent,
          ds_actual, ds_clim, anomalies, z_scores, anom_pc, attrs_in, attrs_out,
          script, files, printed, produced, retrend, run_pc,
          raw_ds, std_ds, interim, std_pc,
          entry, yield_data, records, summary, charts, dp_i, month, yield_pc,
          disk, read_by, written_by, crashed, runs03, store_run, loaded04,
          bnd_table, boundaries, parquet, agg_out, bnd_level, bnd_pc,
          plot_geoids, plot_gdf, coffee_ids, plot_printed, selections, call_i,
          season_days, season_i, all_season_data, grey_lines, n_historical, plot_pc>>

----------------------------------------------------------------------------
(* Bounds of the model *)

\* number of time steps of the grid
NTime == 2
\* largest number of rows of the boundary table
MaxRegions == 2
\* number of days of the regional series given to compute_daily_indices
NIdxDays == 2
\* number of dates of the series given to compute_anomalies
NAnomDays == 2
NStdTimes == 2
NStdCells == 2

----------------------------------------------------------------------------
(* Exact arithmetic with NaN *)

NaN == <<0, 0>>
Zero == <<0, 1>>
One == <<1, 1>>

IsNaN(v) == v[2] = 0

Abs(n) == IF n < 0 THEN -n ELSE n

RECURSIVE GCD(_, _)
GCD(a, b) == IF b = 0 THEN a ELSE GCD(b, a % b)

\* the rational n/d in lowest terms with positive denominator; x/0 is NaN
Frac(n, d) ==
    IF d = 0 THEN NaN
    ELSE LET s == IF d < 0 THEN -1 ELSE 1
             g == GCD(Abs(n), Abs(d))
         IN  <<(s * n) \div g, (s * d) \div g>>

Num(n) == <<n, 1>>

FAdd(a, b) == IF IsNaN(a) \/ IsNaN(b) THEN NaN
              ELSE Frac(a[1] * b[2] + b[1] * a[2], a[2] * b[2])
FSub(a, b) == IF IsNaN(a) \/ IsNaN(b) THEN NaN
              ELSE Frac(a[1] * b[2] - b[1] * a[2], a[2] * b[2])
FMul(a, b) == IF IsNaN(a) \/ IsNaN(b) THEN NaN
              ELSE Frac(a[1] * b[1], a[2] * b[2])
\* numpy division: x/0 with x # 0 is an infinity, which the model's inputs
\* never produce (every divisor used is positive)
FDiv(a, b) == IF IsNaN(a) \/ IsNaN(b) THEN NaN
              ELSE Frac(a[1] * b[2], a[2] * b[1])
FLt(a, b) == ~IsNaN(a) /\ ~IsNaN(b) /\ a[1] * b[2] < b[1] * a[2]
FGt(a, b) == FLt(b, a)
FLe(a, b) == ~IsNaN(a) /\ ~IsNaN(b) /\ a[1] * b[2] <= b[1] * a[2]

----------------------------------------------------------------------------
(* The grid of 02_areal_aggregation.py *)

\* ds.latitude.values and ds.longitude.values: monotonic axes at fixed spacing
\* (coordinates in quarter-cell units, so that polygon corners and centroids
\* between grid points are integers)
Lats == <<0, 4>>
Lons == <<0, 4>>

Times == 1..NTime
GridVars == {"tas", "pr"}
\* cell <<i, j>> is the point (Lons[j], Lats[i])
Cells == (1..Len(Lats)) \X (1..Len(Lons))
\* row-major order of the cells, the order of the double loop and of .sum()
CellSeq == [k \in 1..(Len(Lats) * Len(Lons)) |->
               <<((k - 1) \div Len(Lons)) + 1, ((k - 1) % Len(Lons)) + 1>>]

\* the 2x2 grid [[20,22],[24,26]] of the end-to-end scenario, warmer by one
\* degree on each later day
BaseTas(t, c) == Num(20 + 4 * (c[1] - 1) + 2 * (c[2] - 1) + (t - 1))
BasePr(t, c) == Num(3 * (c[1] - 1) + 5 * (c[2] - 1) + 2 * (t - 1))

\* the grids the model starts from: the base grid, or the base grid with the
\* temperature missing (NaN) at one cell of the first time step
NanSpots == {<<0, <<0, 0>>>>} \cup ({1} \X Cells)
GridWith(spot) ==
    [v \in GridVars |-> [t \in Times |-> [c \in Cells |->
        IF v = "tas"
        THEN (IF spot = <<t, c>> THEN NaN ELSE BaseTas(t, c))
        ELSE BasePr(t, c)]]]
Grids == {GridWith(s) : s \in NanSpots}

----------------------------------------------------------------------------
(* Region polygons: axis-aligned rectangles [x1, x2] x [y1, y2] *)

Rect(x1, x2, y1, y2) == [x1 |-> x1, x2 |-> x2, y1 |-> y1, y2 |-> y2]

Geoms == { Rect(-1, 1, -1, 1),   \* exactly the top-left cell
           Rect(-1, 5, -1, 1),   \* the first row: two cells
           Rect(-1, 5, -1, 5),   \* the whole grid: four cells
           Rect(1, 2, 1, 2),     \* between grid points, nearest to cell <<1,1>>
           Rect(1, 3, 2, 3),     \* between grid points, longitude tie
           Rect(3, 5, 1, 3) }    \* x range holds a column, y range holds no row

GeoIds == {"g1", "g2"}

\* boundary tables: 1..MaxRegions rows, geoid not necessarily unique
Rows == [geoid : GeoIds, geometry : Geoms]
Tables == UNION {[1..n -> Rows] : n \in 1..MaxRegions}

\* shapely geom.contains(Point(x, y)): interior points only
Contains(geom, x, y) ==
    geom.x1 < x /\ x < geom.x2 /\ geom.y1 < y /\ y < geom.y2

\* shapely centroid of the rectangle, in doubled coordinates <<2*cx, 2*cy>>
Centroid2(geom) == <<geom.x1 + geom.x2, geom.y1 + geom.y2>>

----------------------------------------------------------------------------
(* 02_areal_aggregation.py: create_weight_mask *)

RECURSIVE SumSeq(_, _, _)
\* numpy .sum() of f over the first k cells of the row-major order
SumSeq(f, cells, k) ==
    IF k = 0 THEN Zero ELSE FAdd(SumSeq(f, cells, k - 1), f[cells[k]])

MaskSum(mask) == SumSeq(mask, CellSeq, Len(CellSeq))

\* mask[i, j] = 1.0 where geom.contains(point), zeros elsewhere
BinaryMask(geom) ==
    [c \in Cells |-> IF Contains(geom, Lons[c[2]], Lats[c[1]]) THEN One ELSE Zero]

\* mutant of Normalise: the normalisation is left out
Normalise_Skipped(mask) == mask

\* if mask.sum() > 0: mask = mask / mask.sum()
Normalise(mask) ==
    LET total == MaskSum(mask)
    IN  IF FGt(total, Zero)
        THEN [c \in Cells |-> FDiv(mask[c], total)]
        ELSE mask

\* geometry is the GeoSeries of the rows selected for one region id;
\* only its first element (geometry.iloc[0]) is used
create_weight_mask(geometry) == Normalise(BinaryMask(geometry[1]))

----------------------------------------------------------------------------
(* 02_areal_aggregation.py: aggregate_to_regions *)

RECURSIVE Unique(_, _)
\* gdf[id_column].unique(): the distinct ids in order of first appearance
Unique(table, k) ==
    IF k = 0 THEN <<>>
    ELSE LET u == Unique(table, k - 1)
         IN  IF \E i \in 1..Len(u) : u[i] = table[k].geoid
             THEN u ELSE Append(u, table[k].geoid)

region_ids == Unique(gdf, Len(gdf))
n_regions == Len(region_ids)

\* gdf[gdf[id_column] == region_id].geometry
RegionGeometry(table, region_id) ==
    LET sel == SelectSeq(table, LAMBDA r : r.geoid = region_id)
    IN  [k \in 1..Len(sel) |-> sel[k].geometry]

\* coordinate.sel(x, method="nearest") on an increasing axis: the index of
\* the nearest axis value, a tie going to the larger value; x2 is 2*x
Nearest(axis, x2) ==
    CHOOSE k \in 1..Len(axis) :
        \A m \in 1..Len(axis) :
            \/ Abs(2 * axis[k] - x2) < Abs(2 * axis[m] - x2)
            \/ (Abs(2 * axis[k] - x2) = Abs(2 * axis[m] - x2) /\ axis[k] >= axis[m])

\* mutant of NearestCell: the first grid cell instead of the nearest one
NearestCell_First(geom) == <<1, 1>>

\* the nearest-cell branch: the cell selected for the region's centroid
NearestCell(geom) ==
    <<Nearest(Lats, Centroid2(geom)[2]), Nearest(Lons, Centroid2(geom)[1])>>

\* mutant of WeightedSum: a NaN product counts as zero (a nansum)
WeightedSum_SkipNaN(field, weights) ==
    SumSeq([c \in Cells |-> IF IsNaN(field[c]) THEN Zero
                            ELSE FMul(field[c], weights[c])],
           CellSeq, Len(CellSeq))

\* (data * weights.values).sum(axis=(1, 2)) at one time step
WeightedSum(field, weights) ==
    SumSeq([c \in Cells |-> FMul(field[c], weights[c])], CellSeq, Len(CellSeq))

\* mutant of BranchOf: a region without grid cells is skipped
BranchOf_Skip(weights) == IF MaskSum(weights) = Zero THEN "none" ELSE "weighted"

\* the branch taken for a region: weights.sum() == 0 selects the nearest cell
BranchOf(weights) == IF MaskSum(weights) = Zero THEN "nearest" ELSE "weighted"

\* the series one loop iteration computes for its region, per variable
RegionColumn(grid, table, region_id) ==
    LET geometry == RegionGeometry(table, region_id)
        weights == create_weight_mask(geometry)
    IN  IF BranchOf(weights) = "nearest"
        THEN LET cell == NearestCell(geometry[1])
             IN  [v \in GridVars |-> [t \in Times |-> grid[v][t][cell]]]
        ELSE [v \in GridVars |-> [t \in Times |-> WeightedSum(grid[v][t], weights)]]

\* mutant of WriteColumn: the slice also clears the next region's column
WriteColumn_Overlap(out, idx, col) ==
    [v \in GridVars |-> [t \in Times |-> [i \in DOMAIN out[v][t] |->
        IF i = idx THEN col[v][t]
        ELSE IF i = idx + 1 THEN Zero ELSE out[v][t][i]]]]

\* output_data[var][:, idx] = ... : the columns one iteration assigns
WriteColumn(out, idx, col) ==
    [v \in GridVars |-> [t \in Times |-> [out[v][t] EXCEPT ![idx] = col[v][t]]]]

\* one iteration of the loop over enumerate(region_ids)
LoopBody(out, grid, table, idx) ==
    WriteColumn(out, idx,
        RegionColumn(grid, table, Unique(table, Len(table))[idx]))

RECURSIVE Sequential(_, _, _)
\* the loop as the code runs it: iterations 1..k in the order of region_ids
Sequential(grid, table, k) ==
    IF k = 0 THEN [v \in GridVars |-> [t \in Times |->
                      [i \in 1..Len(Unique(table, Len(table))) |-> Zero]]]
    ELSE LoopBody(Sequential(grid, table, k - 1), grid, table, k)

\* np.zeros((n_time, n_regions)) for every variable
ZeroOutput(n) == [v \in GridVars |-> [t \in Times |-> [i \in 1..n |-> Zero]]]

AggInit ==
    /\ ds \in Grids
    /\ gdf \in Tables
    /\ output_data = ZeroOutput(Len(Unique(gdf, Len(gdf))))
    /\ branch = [i \in 1..Len(Unique(gdf, Len(gdf))) |-> "none"]
    /\ todo = 1..Len(Unique(gdf, Len(gdf)))
    /\ pc = "loop"

\* One iteration of the region loop.  The code runs the iterations in the
\* order of region_ids; the model lets them run in any order, which covers
\* the sequential order and every per-region parallel schedule.
ProcessRegion(idx) ==
    /\ pc = "loop"
    /\ idx \in todo
    /\ output_data' = LoopBody(output_data, ds, gdf, idx)
    /\ branch' = [branch EXCEPT ![idx] =
                    BranchOf(create_weight_mask(RegionGeometry(gdf, region_ids[idx])))]
    /\ todo' = todo \ {idx}
    /\ UNCHANGED <<ds, gdf, pc>>
    /\ UNCHANGED <<idxVars, anomVars, runVars, stdVars, yieldVars, pipeVars, bndVars, plotVars>>

\* the loop is exhausted: build and return output_ds
ReturnOutput ==
    /\ pc = "loop"
    /\ todo = {}
    /\ pc' = "done"
    /\ UNCHANGED <<ds, gdf, output_data, branch, todo>>
    /\ UNCHANGED <<idxVars, anomVars, runVars, stdVars, yieldVars, pipeVars, bndVars, plotVars>>

AggIdle ==
    /\ ds = <<>> /\ gdf = <<>> /\ output_data = <<>>
    /\ branch = <<>> /\ todo = {} /\ pc = "idle"

----------------------------------------------------------------------------
(* 04_indices_and_anomalies.py: index parameters for coffee *)

GDD_BASE == 10
GDD_UPPER == 29
EDD_THRESHOLD == 30
\* DRY_DAY_THRESHOLD = 1.0 mm/day
DRY_DAY_THRESHOLD == 1

----------------------------------------------------------------------------
(* 04_indices_and_anomalies.py: compute_daily_indices *)

IdxTimes == 1..NIdxDays
IdxInputVars == {"tas", "tasmax", "pr", "swvl1", "swvl2"}

FMax(a, b) == IF IsNaN(a) \/ IsNaN(b) THEN NaN ELSE IF FLt(a, b) THEN b ELSE a
FMin(a, b) == IF IsNaN(a) \/ IsNaN(b) THEN NaN ELSE IF FLt(b, a) THEN b ELSE a

\* mutant of GddDaily: the upper threshold is not applied
GddDaily_NoUpper(t, thresh, upper) == FMax(FSub(t, Num(thresh)), Zero)

\* compute(ds, index="gdd", params={"thresh": ..., "upper": ...}) for one day:
\* degree days above thresh, the temperature counted up to upper only
GddDaily(t, thresh, upper) ==
    FMax(FSub(FMin(t, Num(upper)), Num(thresh)), Zero)

\* _edd_daily(da, thresh=...) for one day: degrees above the threshold
EddDaily(t, thresh) == FMax(FSub(t, Num(thresh)), Zero)

\* mutant of DryDay: a day at the threshold counts as dry
DryDay_NonStrict(p, thresh) ==
    IF IsNaN(p) THEN NaN ELSE IF FLe(p, Num(thresh)) THEN One ELSE Zero

\* compute(ds, index="dry_days", params={"thresh": ...}) for one day
DryDay(p, thresh) ==
    IF IsNaN(p) THEN NaN ELSE IF FLt(p, Num(thresh)) THEN One ELSE Zero

\* swvl_vars = [v for v in ds.data_vars if v.startswith("swvl")]
SwvlVars(d) == DOMAIN d \cap {"swvl1", "swvl2"}

RECURSIVE SumSet(_, _)
SumSet(f, S) ==
    IF S = {} THEN Zero
    ELSE LET x == CHOOSE y \in S : TRUE IN FAdd(f[x], SumSet(f, S \ {x}))

\* mutant of LayerMean: the mean with skipna=False, NaN when any layer is NaN
LayerMean_PropagateNaN(d, t) ==
    FDiv(SumSet([v \in SwvlVars(d) |-> d[v][t]], SwvlVars(d)),
         Num(Cardinality(SwvlVars(d))))

\* xr.concat(...).mean(dim="layer") at one day: the mean of the layers that
\* are not NaN (xarray skips NaN), NaN when all are NaN
LayerMean(d, t) ==
    LET valid == {v \in SwvlVars(d) : ~IsNaN(d[v][t])}
    IN  IF valid = {} THEN NaN
        ELSE FDiv(SumSet([v \in valid |-> d[v][t]], valid), Num(Cardinality(valid)))

\* the variables of the returned dataset
IndexNames(d) ==
    (IF "tas" \in DOMAIN d THEN {"gdd", "tas"} ELSE {})
    \cup (IF "tasmax" \in DOMAIN d THEN {"edd"} ELSE {})
    \cup (IF "pr" \in DOMAIN d THEN {"dry_day", "pr"} ELSE {})
    \cup (IF SwvlVars(d) # {} THEN {"swvl_mean"} ELSE {})

\* ds.time: the time coordinate of a dataset
TimeCoord(d) ==
    IF DOMAIN d = {} THEN {} ELSE DOMAIN d[CHOOSE v \in DOMAIN d : TRUE]

\* mutant of compute_daily_indices: edd is computed from tas
compute_daily_indices_EddFromTas(d) ==
    [n \in (IndexNames(d) \ {"edd"}) \cup (IF "tas" \in DOMAIN d THEN {"edd"} ELSE {}) |->
      [t \in TimeCoord(d) |->
        CASE n = "gdd" -> GddDaily(d["tas"][t], GDD_BASE, GDD_UPPER)
          [] n = "edd" -> EddDaily(d["tas"][t], EDD_THRESHOLD)
          [] n = "dry_day" -> DryDay(d["pr"][t], DRY_DAY_THRESHOLD)
          [] n = "pr" -> d["pr"][t]
          [] n = "tas" -> d["tas"][t]
          [] n = "swvl_mean" -> LayerMean(d, t)]]

\* mutant of compute_daily_indices: gdd accumulates over the days of the
\* dataset (a running sum from its first day)
compute_daily_indices_Cumulative(d) ==
    [n \in IndexNames(d) |-> [t \in TimeCoord(d) |->
        CASE n = "gdd" ->
               LET past == {u \in TimeCoord(d) : u <= t}
               IN  SumSet([u \in past |-> GddDaily(d["tas"][u], GDD_BASE, GDD_UPPER)], past)
          [] n = "edd" -> EddDaily(d["tasmax"][t], EDD_THRESHOLD)
          [] n = "dry_day" -> DryDay(d["pr"][t], DRY_DAY_THRESHOLD)
          [] n = "pr" -> d["pr"][t]
          [] n = "tas" -> d["tas"][t]
          [] n = "swvl_mean" -> LayerMean(d, t)]]

compute_daily_indices(d) ==
    [n \in IndexNames(d) |-> [t \in TimeCoord(d) |->
        CASE n = "gdd" -> GddDaily(d["tas"][t], GDD_BASE, GDD_UPPER)
          [] n = "edd" -> EddDaily(d["tasmax"][t], EDD_THRESHOLD)
          [] n = "dry_day" -> DryDay(d["pr"][t], DRY_DAY_THRESHOLD)
          [] n = "pr" -> d["pr"][t]
          [] n = "tas" -> d["tas"][t]
          [] n = "swvl_mean" -> LayerMean(d, t)]]

\* ds_numeric.sel(time=slice(first, last)): the days from first to last
Sel(d, first, last) ==
    [v \in DOMAIN d |-> [t \in {u \in TimeCoord(d) : first <= u /\ u <= last} |-> d[v][t]]]

\* the attrs["units"] set on the computed indices; the copied raw variables
\* keep the attributes of the input
IndexUnits(d) ==
    [n \in IndexNames(d) \ {"pr", "tas"} |->
        CASE n = "gdd" -> "degC"
          [] n = "edd" -> "degC"
          [] n = "dry_day" -> "1"
          [] n = "swvl_mean" -> "m3/m3"]

\* daily inputs: temperatures below, at and above both GDD thresholds and a
\* missing value; precipitation below, at and above the dry-day threshold;
\* soil layer 1 is missing on the coldest and on the hottest days, layer 2 on
\* the hottest days and on the days without a temperature
TasVals == {Num(-3), Num(10), Frac(41, 2), Num(29), Num(35), NaN}
PrVals == {Frac(1, 2), Num(1), Num(5)}

IdxInputs ==
    { [v \in present |-> [t \in IdxTimes |->
          CASE v = "tas" -> tas[t]
            [] v = "tasmax" -> FAdd(tas[t], Num(4))
            [] v = "pr" -> pr[t]
            [] v = "swvl1" -> IF tas[t] \in {Num(-3), Num(35)} THEN NaN
                              ELSE Frac(1, 5)
            [] v = "swvl2" -> IF tas[t] \in {Num(35), NaN} THEN NaN
                              ELSE Frac(2 + t, 10)]] :
        present \in SUBSET IdxInputVars,
        tas \in [IdxTimes -> TasVals],
        pr \in [IdxTimes -> PrVals] }

IdxInit ==
    /\ ds_numeric \in IdxInputs
    /\ indices = <<>>
    /\ indices_attrs = <<>>
    /\ idx_pc = "input"
    /\ ds_recent = <<>>
    /\ indices_recent = <<>>

IdxIdle ==
    /\ ds_numeric = <<>> /\ indices = <<>> /\ indices_attrs = <<>>
    /\ idx_pc = "idle"
    /\ ds_recent = <<>> /\ indices_recent = <<>>

ComputeDailyIndices ==
    /\ idx_pc = "input"
    /\ indices' = compute_daily_indices(ds_numeric)
    /\ indices_attrs' = IndexUnits(ds_numeric)
    /\ idx_pc' = "done"
    /\ UNCHANGED <<ds_numeric, ds_recent, indices_recent>>
    /\ UNCHANGED <<aggVars, anomVars, runVars, stdVars, yieldVars, pipeVars, bndVars, plotVars>>

\* main(): ds_recent = ds_numeric.sel(time=slice("2020-01-01", "2025-12-31"))
\* and ds_indices = compute_daily_indices(ds_recent); the first day of 2020
\* can be any day of the series, which ends before 2026
ComputeRecentIndices ==
    /\ idx_pc = "done"
    /\ \E first \in IdxTimes :
          /\ ds_recent' = Sel(ds_numeric, first, NIdxDays)
          /\ indices_recent' = compute_daily_indices(Sel(ds_numeric, first, NIdxDays))
    /\ idx_pc' = "recent_done"
    /\ UNCHANGED <<ds_numeric, indices, indices_attrs>>
    /\ UNCHANGED <<aggVars, anomVars, runVars, stdVars, yieldVars, pipeVars, bndVars, plotVars>>

----------------------------------------------------------------------------
(* 04_indices_and_anomalies.py: compute_anomalies *)

AnomTimes == 1..NAnomDays
\* the day of year of date t (the dates are consecutive days of one year)
Doy(t) == t

\* vars_to_process, in the order of the loop
vars_to_process == <<"tas", "pr", "gdd", "edd", "swvl_mean">>
ToProcess == {vars_to_process[i] : i \in 1..Len(vars_to_process)}

\* f"{var}_zscore"
ZName(var) ==
    CASE var = "tas" -> "tas_zscore"
      [] var = "pr" -> "pr_zscore"
      [] var = "gdd" -> "gdd_zscore"
      [] var = "edd" -> "edd_zscore"
      [] var = "swvl_mean" -> "swvl_mean_zscore"

\* the epsilon of the z-score divisor, 0.001
Epsilon == Frac(1, 1000)

\* query_climatology(ds_clim, valid_time=times, ...): the climatology entry
\* of each date's day of year
query_climatology(clim, times) ==
    [v \in DOMAIN clim |-> [t \in times |-> clim[v][Doy(t)]]]

\* mutant of StdSafe: the standard deviation is used as it is
StdSafe_NoFloor(clim_std) == clim_std

\* clim_std.where(clim_std > 0.001, 0.001)
StdSafe(clim_std) == IF FGt(clim_std, Epsilon) THEN clim_std ELSE Epsilon

\* the variables the loop does not skip
ProcessedVars(actual, clim_for_dates) ==
    {v \in ToProcess : v \in DOMAIN actual /\ v \in DOMAIN clim_for_dates}

\* mutant of Anomalies: the "scale" statistic is subtracted, not "loc"
Anomalies_FromScale(actual, clim_for_dates) ==
    [v \in ProcessedVars(actual, clim_for_dates) |-> [t \in AnomTimes |->
        FSub(actual[v][t], clim_for_dates[v][t].scale)]]

\* mutant of Anomalies: a date whose climatological mean is NaN is filled
\* with a mean of zero, so its anomaly is the actual value
Anomalies_FillNaN(actual, clim_for_dates) ==
    [v \in ProcessedVars(actual, clim_for_dates) |-> [t \in AnomTimes |->
        IF IsNaN(clim_for_dates[v][t].loc) THEN actual[v][t]
        ELSE FSub(actual[v][t], clim_for_dates[v][t].loc)]]

\* anom = actual - clim_mean, for every processed variable
Anomalies(actual, clim_for_dates) ==
    [v \in ProcessedVars(actual, clim_for_dates) |-> [t \in AnomTimes |->
        FSub(actual[v][t], clim_for_dates[v][t].loc)]]

\* zscore = anom / std_safe at one date
ZScore(anom, clim_std) == FDiv(anom, StdSafe(clim_std))

\* the threshold of the extreme-event flags
ExtremeZ == 2

\* the names of the returned z-score dataset: the z-scores, then the flags
ZNames(pv) ==
    {ZName(v) : v \in pv}
    \cup (IF "tas" \in pv THEN {"extreme_hot", "extreme_cold"} ELSE {})
    \cup (IF "pr" \in pv THEN {"extreme_dry", "extreme_wet"} ELSE {})

\* mutant of ZScores: the flags use >= and <=
ZScores_NonStrict(actual, clim_for_dates) ==
    LET pv == ProcessedVars(actual, clim_for_dates)
        anom == Anomalies(actual, clim_for_dates)
        z(v, t) == ZScore(anom[v][t], clim_for_dates[v][t].scale)
    IN  [n \in ZNames(pv) |-> [t \in AnomTimes |->
            CASE n = "extreme_hot" -> FLe(Num(ExtremeZ), z("tas", t))
              [] n = "extreme_cold" -> FLe(z("tas", t), Num(-ExtremeZ))
              [] n = "extreme_dry" -> FLe(z("pr", t), Num(-ExtremeZ))
              [] n = "extreme_wet" -> FLe(Num(ExtremeZ), z("pr", t))
              [] OTHER -> z(CHOOSE v \in pv : ZName(v) = n, t)]]

ZScores(actual, clim_for_dates) ==
    LET pv == ProcessedVars(actual, clim_for_dates)
        anom == Anomalies(actual, clim_for_dates)
        z(v, t) == ZScore(anom[v][t], clim_for_dates[v][t].scale)
    IN  [n \in ZNames(pv) |-> [t \in AnomTimes |->
            CASE n = "extreme_hot" -> FGt(z("tas", t), Num(ExtremeZ))
              [] n = "extreme_cold" -> FLt(z("tas", t), Num(-ExtremeZ))
              [] n = "extreme_dry" -> FLt(z("pr", t), Num(-ExtremeZ))
              [] n = "extreme_wet" -> FGt(z("pr", t), Num(ExtremeZ))
              [] OTHER -> z(CHOOSE v \in pv : ZName(v) = n, t)]]

\* attrs["long_name"] of an input variable, as the earlier steps set it
InputLongName(v) ==
    CASE v = "gdd" -> "Growing Degree Days (base 10.0C)"
      [] v = "edd" -> "Extreme Degree Days (>30.0C)"
      [] v = "dry_day" -> "Dry Day (precipitation < 1.0mm)"
      [] v = "swvl_mean" -> "Mean Volumetric Soil Water"
      [] v = "tas" -> "Near-Surface Air Temperature"
      [] v = "tasmax" -> "Daily Maximum Near-Surface Air Temperature"
      [] v = "pr" -> "Precipitation"
      [] v = "swvl1" -> "Volumetric Soil Water Layer 1 (0-7cm)"

\* f"{var} anomaly" and f"{var} standardised anomaly (z-score)"
AnomalyLongName(v) ==
    CASE v = "tas" -> "tas anomaly"
      [] v = "pr" -> "pr anomaly"
      [] v = "gdd" -> "gdd anomaly"
      [] v = "edd" -> "edd anomaly"
      [] v = "swvl_mean" -> "swvl_mean anomaly"
ZScoreLongName(v) ==
    CASE v = "tas" -> "tas standardised anomaly (z-score)"
      [] v = "pr" -> "pr standardised anomaly (z-score)"
      [] v = "gdd" -> "gdd standardised anomaly (z-score)"
      [] v = "edd" -> "edd standardised anomaly (z-score)"
      [] v = "swvl_mean" -> "swvl_mean standardised anomaly (z-score)"

\* the attributes the loop sets on the two new datasets (the flags get none)
OutputLongNames(actual, clim_for_dates) ==
    LET pv == ProcessedVars(actual, clim_for_dates)
    IN  [anomalies |-> [v \in pv |-> AnomalyLongName(v)],
         z_scores |-> [n \in {ZName(v) : v \in pv} |->
                         ZScoreLongName(CHOOSE v \in pv : ZName(v) = n)]]

\* inputs: every date holds the default values (actual 25, mean 22, standard
\* deviation 3/2) except one probed (variable, date), whose values are free
ActVals == {Num(25), Num(22), Num(19), NaN}
LocVals == {Num(22), NaN}
ScaleVals == {Num(-1), Zero, Frac(1, 2000), Frac(1, 1000), Frac(1, 500),
              Num(1), Frac(3, 2), NaN}
ActualVarSets == {{"tas", "pr", "gdd", "edd", "swvl_mean", "dry_day"},
                  {"pr", "gdd"}, {"tas"}}
ClimVarSets == {{"tas", "pr", "tasmax", "swvl1"},
                {"tas", "pr", "gdd", "edd", "swvl_mean"}, {"pr"}}

AnomInit ==
    /\ \E av \in ActualVarSets, cv \in ClimVarSets,
          p \in {"tas", "pr", "gdd"}, d \in AnomTimes,
          a \in ActVals, loc \in LocVals, sc \in ScaleVals :
        /\ ds_actual = [v \in av |-> [t \in AnomTimes |->
                           IF v = p /\ t = d THEN a ELSE Num(25)]]
        /\ ds_clim = [v \in cv |-> [t \in AnomTimes |->
                           IF v = p /\ t = d THEN [loc |-> loc, scale |-> sc]
                           ELSE [loc |-> Num(22), scale |-> Frac(3, 2)]]]
    /\ attrs_in = [actual |-> [v \in DOMAIN ds_actual |-> InputLongName(v)],
                   clim |-> [v \in DOMAIN ds_clim |-> InputLongName(v)]]
    /\ attrs_out = <<>>
    /\ anomalies = <<>>
    /\ z_scores = <<>>
    /\ anom_pc = "input"

AnomIdle ==
    /\ ds_actual = <<>> /\ ds_clim = <<>> /\ anomalies = <<>>
    /\ z_scores = <<>> /\ anom_pc = "idle"
    /\ attrs_in = <<>> /\ attrs_out = <<>>

\* mutant of ComputeAnomalies: the anomaly is computed in place
\* (actual -= clim_mean), so the input holds the anomalies afterwards
ComputeAnomalies_InPlace ==
    /\ anom_pc = "input"
    /\ anomalies' = Anomalies(ds_actual, query_climatology(ds_clim, AnomTimes))
    /\ z_scores' = ZScores(ds_actual, query_climatology(ds_clim, AnomTimes))
    /\ attrs_out' = OutputLongNames(ds_actual, query_climatology(ds_clim, AnomTimes))
    /\ anom_pc' = "done"
    /\ ds_actual' = [v \in DOMAIN ds_actual |->
                        IF v \in DOMAIN anomalies' THEN anomalies'[v] ELSE ds_actual[v]]
    /\ UNCHANGED <<ds_clim, attrs_in>>
    /\ UNCHANGED <<aggVars, idxVars, runVars, stdVars, yieldVars, pipeVars, bndVars, plotVars>>

ComputeAnomalies ==
    /\ anom_pc = "input"
    /\ anomalies' = Anomalies(ds_actual, query_climatology(ds_clim, AnomTimes))
    /\ z_scores' = ZScores(ds_actual, query_climatology(ds_clim, AnomTimes))
    /\ attrs_out' = OutputLongNames(ds_actual, query_climatology(ds_clim, AnomTimes))
    /\ anom_pc' = "done"
    /\ UNCHANGED <<ds_actual, ds_clim, attrs_in>>
    /\ UNCHANGED <<aggVars, idxVars, runVars, stdVars, yieldVars, pipeVars, bndVars, plotVars>>

----------------------------------------------------------------------------
(* main() of 05_visualise.py and of 04_indices_and_anomalies.py, as runs over
   the stores on disk.  Opening a store that does not exist (xr.open_zarr,
   gpd.read_parquet) raises, and neither main() catches anything. *)

\* the paths of the configuration blocks
Stores == {"AGG_PATH", "BOUNDS_PATH", "BOUNDS_ADM0_PATH", "RAW_GRID_PATH",
           "CLIM_PATH", "TREND_PATH", "ANOMALIES_PATH", "INDICES_PATH",
           "INDICES_FULL_PATH"}

RunInit ==
    /\ script \in {"04", "05"}
    /\ files \in SUBSET Stores
    /\ printed = {}
    /\ produced = {}
    /\ retrend = "unset"
    /\ run_pc = "load"

RunIdle ==
    /\ script = "none" /\ files = {} /\ printed = {} /\ produced = {}
    /\ retrend = "unset" /\ run_pc = "idle"

RunFrame == UNCHANGED <<aggVars, idxVars, anomVars, stdVars, yieldVars, pipeVars, bndVars, plotVars>>

\* 05: open the aggregated data and both boundary tables, draw the regions map
Vis_Load ==
    /\ script = "05" /\ run_pc = "load"
    /\ IF {"AGG_PATH", "BOUNDS_PATH", "BOUNDS_ADM0_PATH"} \subseteq files
       THEN /\ produced' = produced \cup {"00_coffee_regions_map.png"}
            /\ run_pc' = "gridded_map"
       ELSE /\ run_pc' = "crashed"
            /\ UNCHANGED produced
    /\ UNCHANGED <<script, files, printed, retrend>>
    /\ RunFrame

\* 05: gridded weather maps, if RAW_GRID_PATH.exists()
Vis_GriddedMap ==
    /\ script = "05" /\ run_pc = "gridded_map"
    /\ IF "RAW_GRID_PATH" \in files
       THEN /\ produced' = produced \cup {"01b_gridded_weather_map.png",
                                          "01c_gridded_weather_map_highres.png"}
            /\ UNCHANGED printed
       ELSE /\ printed' = printed \cup {"Skipping gridded map"}
            /\ UNCHANGED produced
    /\ run_pc' = "time_series"
    /\ UNCHANGED <<script, files, retrend>>
    /\ RunFrame

\* mutant of Vis_TimeSeries: the climatology is opened without the exists() test
Vis_TimeSeries_NoCheck ==
    /\ script = "05" /\ run_pc = "time_series"
    /\ IF "CLIM_PATH" \in files
       THEN /\ produced' = produced \cup {"02_time_series_vs_climatology.png",
                                          "02b_time_series_minimal.png"}
            /\ run_pc' = "anomaly_plot"
       ELSE /\ run_pc' = "crashed"
            /\ UNCHANGED produced
    /\ UNCHANGED <<script, files, printed, retrend>>
    /\ RunFrame

\* 05: time series against the climatology, if CLIM_PATH.exists(); the trend
\* parameters are loaded inside that branch, if TREND_PATH.exists()
Vis_TimeSeries ==
    /\ script = "05" /\ run_pc = "time_series"
    /\ IF "CLIM_PATH" \in files
       THEN /\ IF "TREND_PATH" \in files
               THEN /\ printed' = printed \cup {"Loading trend parameters"}
                    /\ retrend' = "yes"
               ELSE /\ retrend' = "no"
                    /\ UNCHANGED printed
            /\ produced' = produced \cup {"02_time_series_vs_climatology.png",
                                          "02b_time_series_minimal.png"}
       ELSE /\ printed' = printed \cup {"Skipping time series plot"}
            /\ UNCHANGED <<produced, retrend>>
    /\ run_pc' = "anomaly_plot"
    /\ UNCHANGED <<script, files>>
    /\ RunFrame

\* 05: monthly anomalies, if ANOMALIES_PATH.exists()
Vis_AnomalyPlot ==
    /\ script = "05" /\ run_pc = "anomaly_plot"
    /\ IF "ANOMALIES_PATH" \in files
       THEN /\ produced' = produced \cup {"03_monthly_anomalies.png"}
            /\ UNCHANGED printed
       ELSE /\ printed' = printed \cup {"Skipping anomaly plot"}
            /\ UNCHANGED produced
    /\ run_pc' = "index_dashboard"
    /\ UNCHANGED <<script, files, retrend>>
    /\ RunFrame

\* 05: index dashboard, if INDICES_PATH.exists()
Vis_IndexDashboard ==
    /\ script = "05" /\ run_pc = "index_dashboard"
    /\ IF "INDICES_PATH" \in files
       THEN /\ produced' = produced \cup {"04_index_dashboard.png"}
            /\ UNCHANGED printed
       ELSE /\ printed' = printed \cup {"Skipping index dashboard"}
            /\ UNCHANGED produced
    /\ run_pc' = "dayofyear"
    /\ UNCHANGED <<script, files, retrend>>
    /\ RunFrame

\* 05: day-of-year indices, if INDICES_FULL_PATH.exists()
Vis_DayOfYear ==
    /\ script = "05" /\ run_pc = "dayofyear"
    /\ IF "INDICES_FULL_PATH" \in files
       THEN /\ produced' = produced \cup {"07_dayofyear_indices.png"}
            /\ UNCHANGED printed
       ELSE /\ printed' = printed \cup {"Skipping day-of-year plot"}
            /\ UNCHANGED produced
    /\ run_pc' = "annual"
    /\ UNCHANGED <<script, files, retrend>>
    /\ RunFrame

\* 05: annual comparison (needs the aggregated data only), then the end
Vis_Annual ==
    /\ script = "05" /\ run_pc = "annual"
    /\ produced' = produced \cup {"05_annual_comparison.png"}
    /\ run_pc' = "done"
    /\ UNCHANGED <<script, files, printed, retrend>>
    /\ RunFrame

\* 04: xr.open_zarr(AGG_PATH), xr.open_zarr(CLIM_PATH) without an exists()
\* test, then the trend parameters if TREND_PATH.exists()
Ind_Load ==
    /\ script = "04" /\ run_pc = "load"
    /\ IF {"AGG_PATH", "CLIM_PATH"} \subseteq files
       THEN /\ IF "TREND_PATH" \in files
               THEN /\ printed' = printed \cup {"Loading trend parameters"}
                    /\ retrend' = "yes"
               ELSE /\ retrend' = "no"
                    /\ UNCHANGED printed
            /\ run_pc' = "full_indices"
       ELSE /\ run_pc' = "crashed"
            /\ UNCHANGED <<printed, retrend>>
    /\ UNCHANGED <<script, files, produced>>
    /\ RunFrame

\* 04: compute and save the full-period indices
Ind_FullIndices ==
    /\ script = "04" /\ run_pc = "full_indices"
    /\ files' = files \cup {"INDICES_FULL_PATH"}
    /\ produced' = produced \cup {"INDICES_FULL_PATH"}
    /\ run_pc' = "recent_indices"
    /\ UNCHANGED <<script, printed, retrend>>
    /\ RunFrame

\* 04: compute and save the recent indices
Ind_RecentIndices ==
    /\ script = "04" /\ run_pc = "recent_indices"
    /\ files' = files \cup {"INDICES_PATH"}
    /\ produced' = produced \cup {"INDICES_PATH"}
    /\ run_pc' = "anomalies"
    /\ UNCHANGED <<script, printed, retrend>>
    /\ RunFrame

\* 04: compute, merge and save the anomalies, then the end
Ind_Anomalies ==
    /\ script = "04" /\ run_pc = "anomalies"
    /\ files' = files \cup {"ANOMALIES_PATH"}
    /\ produced' = produced \cup {"ANOMALIES_PATH"}
    /\ run_pc' = "done"
    /\ UNCHANGED <<script, printed, retrend>>
    /\ RunFrame

----------------------------------------------------------------------------
(* 01_inspect_and_standardise.py: rename, convert units, add attributes, save *)

VARIABLE_MAP ==
    [n \in {"2m_temperature", "2m_temperature_max", "2m_temperature_min",
            "total_precipitation", "evaporation",
            "volumetric_soil_water_layer_1", "volumetric_soil_water_layer_2",
            "volumetric_soil_water_layer_3", "volumetric_soil_water_layer_4"} |->
        CASE n = "2m_temperature" -> "tas"
          [] n = "2m_temperature_max" -> "tasmax"
          [] n = "2m_temperature_min" -> "tasmin"
          [] n = "total_precipitation" -> "pr"
          [] n = "evaporation" -> "evspsbl"
          [] n = "volumetric_soil_water_layer_1" -> "swvl1"
          [] n = "volumetric_soil_water_layer_2" -> "swvl2"
          [] n = "volumetric_soil_water_layer_3" -> "swvl3"
          [] n = "volumetric_soil_water_layer_4" -> "swvl4"]

StdTimes == 1..NStdTimes
StdCells == 1..NStdCells
StdPoints == StdTimes \X StdCells

\* ds.rename(rename_dict): every variable found in VARIABLE_MAP gets its
\* canonical name, the others keep theirs
NewName(n) == IF n \in DOMAIN VARIABLE_MAP THEN VARIABLE_MAP[n] ELSE n
OldName(dset, v) == CHOOSE n \in DOMAIN dset.data : NewName(n) = v
standardise_variable_names(dset) ==
    LET names == {NewName(n) : n \in DOMAIN dset.data}
    IN  [dset EXCEPT !.data = [v \in names |-> dset.data[OldName(dset, v)]],
                   !.units = [v \in names |-> dset.units[OldName(dset, v)]],
                   !.long_name = [v \in names |-> dset.long_name[OldName(dset, v)]]]

\* float(ds[var].isel(time=0).mean()): the mean of the first day over the
\* cells that are not NaN, NaN when there is none
RECURSIVE SumFirstDay(_, _)
SumFirstDay(grid, k) ==
    IF k = 0 THEN Zero
    ELSE LET rest == SumFirstDay(grid, k - 1)
         IN  IF IsNaN(grid[<<1, k>>]) THEN rest ELSE FAdd(rest, grid[<<1, k>>])
SampleMean(grid) ==
    LET n == Cardinality({c \in StdCells : ~IsNaN(grid[<<1, c>>])})
    IN  IF n = 0 THEN NaN ELSE FDiv(SumFirstDay(grid, NStdCells), Num(n))

Kelvin == Frac(27315, 100)
FNeg(a) == FSub(Zero, a)
FAbs(a) == IF FLt(a, Zero) THEN FNeg(a) ELSE a

\* tas, tasmax, tasmin: K -> C when the sample mean is above 100
ConvertTemperature(grid) ==
    LET sample_mean == SampleMean(grid)
    IN  IF FGt(sample_mean, Num(100))
        THEN [p \in StdPoints |-> FSub(grid[p], Kelvin)]
        ELSE grid

\* pr: m -> mm when the sample mean is below 1
ConvertPr(grid) ==
    LET sample_mean == SampleMean(grid)
    IN  IF FLt(sample_mean, One)
        THEN [p \in StdPoints |-> FMul(grid[p], Num(1000))]
        ELSE grid

\* evspsbl: m -> mm with a sign flip when |sample mean| is below 1, otherwise
\* a sign flip when the sample mean is negative
ConvertEvspsbl(grid) ==
    LET sample_mean == SampleMean(grid)
    IN  IF FLt(FAbs(sample_mean), One)
        THEN [p \in StdPoints |-> FMul(FNeg(grid[p]), Num(1000))]
        ELSE IF FLt(sample_mean, Zero)
             THEN [p \in StdPoints |-> FNeg(grid[p])]
             ELSE grid

TemperatureVars == {"tas", "tasmax", "tasmin"}

\* mutant of convert_units: after the conversion the NaN mask of tas is
\* written into every other variable
convert_units_MaskByTas(dset) ==
    LET conv(v) == CASE v \in TemperatureVars -> ConvertTemperature(dset.data[v])
                     [] v = "pr" -> ConvertPr(dset.data[v])
                     [] v = "evspsbl" -> ConvertEvspsbl(dset.data[v])
                     [] OTHER -> dset.data[v]
    IN  [dset EXCEPT
            !.data = [v \in DOMAIN dset.data |->
                        IF "tas" \in DOMAIN dset.data
                        THEN [p \in StdPoints |->
                                IF IsNaN(dset.data["tas"][p]) THEN NaN ELSE conv(v)[p]]
                        ELSE conv(v)],
            !.units = [v \in DOMAIN dset.data |->
                        IF v \in TemperatureVars THEN "degC"
                        ELSE IF v \in {"pr", "evspsbl"} THEN "mm/day"
                        ELSE dset.units[v]]]

convert_units(dset) ==
    [dset EXCEPT
        !.data = [v \in DOMAIN dset.data |->
                    CASE v \in TemperatureVars -> ConvertTemperature(dset.data[v])
                      [] v = "pr" -> ConvertPr(dset.data[v])
                      [] v = "evspsbl" -> ConvertEvspsbl(dset.data[v])
                      [] OTHER -> dset.data[v]],
        !.units = [v \in DOMAIN dset.data |->
                    IF v \in TemperatureVars THEN "degC"
                    ELSE IF v \in {"pr", "evspsbl"} THEN "mm/day"
                    ELSE dset.units[v]]]

\* the long_name of each canonical variable
cf_attrs ==
    [v \in {"tas", "tasmax", "tasmin", "pr", "evspsbl",
            "swvl1", "swvl2", "swvl3", "swvl4"} |->
        CASE v = "tas" -> "Near-Surface Air Temperature"
          [] v = "tasmax" -> "Daily Maximum Near-Surface Air Temperature"
          [] v = "tasmin" -> "Daily Minimum Near-Surface Air Temperature"
          [] v = "pr" -> "Precipitation"
          [] v = "evspsbl" -> "Evaporation"
          [] v = "swvl1" -> "Volumetric Soil Water Layer 1 (0-7cm)"
          [] v = "swvl2" -> "Volumetric Soil Water Layer 2 (7-28cm)"
          [] v = "swvl3" -> "Volumetric Soil Water Layer 3 (28-100cm)"
          [] v = "swvl4" -> "Volumetric Soil Water Layer 4 (100-289cm)"]

add_cf_attrs(dset) ==
    [dset EXCEPT
        !.long_name = [v \in DOMAIN dset.data |->
                        IF v \in DOMAIN cf_attrs THEN cf_attrs[v] ELSE dset.long_name[v]],
        !.Conventions = "CF-1.8"]

\* ---- the raw stores the runs start from
RawNames == {"2m_temperature", "total_precipitation", "evaporation",
             "volumetric_soil_water_layer_1"}

\* the unit a raw variable may come in
RawKinds(n) ==
    CASE n = "2m_temperature" -> {"K", "degC"}
      [] n = "total_precipitation" -> {"m", "m_dry", "mm", "mm_dry"}
      [] n = "evaporation" -> {"m_down", "mm_down", "mm_up"}
      [] n = "volumetric_soil_water_layer_1" -> {"m3/m3"}

RawValue(kind, t, c) ==
    CASE kind = "K" -> FAdd(Kelvin, Num(20 + t + c))
      [] kind = "degC" -> Num(20 + t + c)
      [] kind = "m" -> Frac(t + c, 1000)
      [] kind = "mm" -> Num(t + c)
      [] kind = "m_dry" -> IF t = 1 THEN Frac(c, 4000 * NStdCells) ELSE Frac(t + c, 1000)
      [] kind = "mm_dry" -> IF t = 1 THEN Frac(c, 4 * NStdCells) ELSE Num(t + c)
      [] kind = "m_down" -> Frac(-(t + c), 1000)
      [] kind = "mm_down" -> Num(-(t + c))
      [] kind = "mm_up" -> Num(t + c)
      [] kind = "m3/m3" -> Frac(t + c, 10)

\* where a raw variable may be missing: nowhere, at one cell of the first
\* day, or on the whole first day
RawMasks == {{}, {<<1, 1>>}, {1} \X StdCells}

RawGrid(kind, mask) ==
    [p \in StdPoints |-> IF p \in mask THEN NaN ELSE RawValue(kind, p[1], p[2])]
RawGrids(n) == {RawGrid(k, m) : k \in RawKinds(n), m \in RawMasks}

StdInit ==
    /\ \E S \in SUBSET RawNames :
       \E gt \in RawGrids("2m_temperature"), gp \in RawGrids("total_precipitation"),
          ge \in RawGrids("evaporation"), gs \in RawGrids("volumetric_soil_water_layer_1") :
            raw_ds = [n \in S |->
                        CASE n = "2m_temperature" -> gt
                          [] n = "total_precipitation" -> gp
                          [] n = "evaporation" -> ge
                          [] n = "volumetric_soil_water_layer_1" -> gs]
    /\ std_ds = "none"
    /\ interim = "none"
    /\ std_pc = "open"

StdIdle ==
    /\ raw_ds = "none" /\ std_ds = "none" /\ interim = "none" /\ std_pc = "idle"

StdFrame == UNCHANGED <<aggVars, idxVars, anomVars, runVars, yieldVars, pipeVars, bndVars, plotVars>>

\* ds = xr.open_zarr(RAW_PATH)
Std_Open ==
    /\ std_pc = "open"
    /\ std_ds' = [data |-> raw_ds,
                  units |-> [n \in DOMAIN raw_ds |-> "none"],
                  long_name |-> [n \in DOMAIN raw_ds |-> "none"],
                  Conventions |-> "none"]
    /\ std_pc' = "rename"
    /\ UNCHANGED <<raw_ds, interim>>
    /\ StdFrame

Std_Rename ==
    /\ std_pc = "rename"
    /\ std_ds' = standardise_variable_names(std_ds)
    /\ std_pc' = "convert"
    /\ UNCHANGED <<raw_ds, interim>>
    /\ StdFrame

Std_ConvertUnits ==
    /\ std_pc = "convert"
    /\ std_ds' = convert_units(std_ds)
    /\ std_pc' = "attrs"
    /\ UNCHANGED <<raw_ds, interim>>
    /\ StdFrame

Std_AddCfAttrs ==
    /\ std_pc = "attrs"
    /\ std_ds' = add_cf_attrs(std_ds)
    /\ std_pc' = "save"
    /\ UNCHANGED <<raw_ds, interim>>
    /\ StdFrame

\* ds.to_zarr(INTERIM_PATH, mode="w")
Std_Save ==
    /\ std_pc = "save"
    /\ interim' = std_ds
    /\ std_pc' = "plot"
    /\ UNCHANGED <<raw_ds, std_ds>>
    /\ StdFrame

\* create_spatial_plot reads ds["tas"], ds["pr"] and ds["swvl1"]: a KeyError
\* when one of them is not in the dataset
Std_SpatialPlot ==
    /\ std_pc = "plot"
    /\ std_pc' = IF {"tas", "pr", "swvl1"} \subseteq DOMAIN std_ds.data
                 THEN "done" ELSE "crashed"
    /\ UNCHANGED <<raw_ds, std_ds, interim>>
    /\ StdFrame

----------------------------------------------------------------------------
(* main.py: the synthetic yield series *)

\* an optional float: None is <<>>, a value x is <<x>>
None == <<>>
Some(x) == <<x>>

YieldDataPoint(year, yield_kg_ha, is_forecast, lower_bound, upper_bound) ==
    [year |-> year, yield_kg_ha |-> yield_kg_ha, is_forecast |-> is_forecast,
     lower_bound |-> lower_bound, upper_bound |-> upper_bound]

\* mutant of generate_vietnam_coffee_yield_data: the 2027 bounds are those
\* of the 2026 row
generate_vietnam_coffee_yield_data_CopiedBounds ==
    << YieldDataPoint(2020, 2800, FALSE, None, None),
       YieldDataPoint(2021, 2850, FALSE, None, None),
       YieldDataPoint(2022, 2980, FALSE, None, None),
       YieldDataPoint(2023, 2680, FALSE, None, None),
       YieldDataPoint(2024, 2500, FALSE, None, None),
       YieldDataPoint(2025, 2650, FALSE, None, None),
       YieldDataPoint(2026, 2850, TRUE, Some(2565), Some(3135)),
       YieldDataPoint(2027, 2950, TRUE, Some(2565), Some(3135)) >>

\* historical + forecast
generate_vietnam_coffee_yield_data ==
    << YieldDataPoint(2020, 2800, FALSE, None, None),
       YieldDataPoint(2021, 2850, FALSE, None, None),
       YieldDataPoint(2022, 2980, FALSE, None, None),
       YieldDataPoint(2023, 2680, FALSE, None, None),
       YieldDataPoint(2024, 2500, FALSE, None, None),
       YieldDataPoint(2025, 2650, FALSE, None, None),
       YieldDataPoint(2026, 2850, TRUE, Some(2565), Some(3135)),
       YieldDataPoint(2027, 2950, TRUE, Some(2655), Some(3245)) >>

\* 10000 * sin(2 pi (month - 10) / 12): the sine of a multiple of 30 degrees
SinTable == <<0, 5000, 8660, 10000, 8660, 5000, 0, -5000, -8660, -10000, -8660, -5000>>
Sin4(m) == SinTable[((m - 10) % 12) + 1]

\* round(x, 0) of the non-negative x = num / den: to the nearest integer,
\* a tie to the even one
RoundHalfEven(num, den) ==
    LET q == num \div den
        r == num % den
    IN  IF 2 * r > den \/ (2 * r = den /\ q % 2 = 1) THEN q + 1 ELSE q

\* round(dp.yield_kg_ha * (1.0 + 0.02 * sin(...)), 0)
MonthlyYield(yield_kg_ha, m) ==
    RoundHalfEven(yield_kg_ha * (500000 + Sin4(m)), 500000)

MonthlyRecord(dp, m) ==
    [year |-> dp.year, month |-> m, date |-> <<dp.year, m, 1>>,
     yield_kg_ha |-> MonthlyYield(dp.yield_kg_ha, m),
     is_forecast |-> dp.is_forecast,
     lower_bound |-> dp.lower_bound, upper_bound |-> dp.upper_bound]

CsvRecord(d) ==
    [year |-> d.year, yield_kg_ha |-> d.yield_kg_ha,
     yield_t_ha |-> Frac(d.yield_kg_ha, 1000), is_forecast |-> d.is_forecast,
     lower_bound_kg_ha |-> d.lower_bound, upper_bound_kg_ha |-> d.upper_bound]

Historical(dat) == LET keep(d) == ~d.is_forecast IN SelectSeq(dat, keep)
Forecast(dat) == LET keep(d) == d.is_forecast IN SelectSeq(dat, keep)
Last(seq) == seq[Len(seq)]

\* the series create_booth_visualization draws; the annotations when
\* show_numbers is set
BoothSeries(dat, show_numbers) ==
    LET historical == Historical(dat)
        forecast == Forecast(dat)
        last == Last(historical)
    IN  [hist_years |-> [i \in 1..Len(historical) |-> historical[i].year],
         hist_yields |-> [i \in 1..Len(historical) |-> historical[i].yield_kg_ha],
         fore_years |-> <<last.year>> \o [i \in 1..Len(forecast) |-> forecast[i].year],
         fore_yields |-> <<last.yield_kg_ha>>
                           \o [i \in 1..Len(forecast) |-> forecast[i].yield_kg_ha],
         fore_lower |-> <<Some(last.yield_kg_ha)>>
                           \o [i \in 1..Len(forecast) |-> forecast[i].lower_bound],
         fore_upper |-> <<Some(last.yield_kg_ha)>>
                           \o [i \in 1..Len(forecast) |-> forecast[i].upper_bound],
         annotations |-> IF show_numbers
                         THEN [i \in 1..Len(dat) |->
                                 [text |-> dat[i].yield_kg_ha, year |-> dat[i].year,
                                  y_offset |-> IF dat[i].year % 2 = 0 THEN 100 ELSE -150]]
                         ELSE <<>>]

\* the key figures of print_summary
KeyFigures(dat) ==
    LET forecast_2026 == dat[CHOOSE i \in 1..Len(dat) : dat[i].year = 2026]
    IN  [yield_2026 |-> forecast_2026.yield_kg_ha,
         change_vs_2025 |-> "+6% (recovery from drought)",
         flood_risk |-> "0.17 (index 0-1)",
         date_range |-> "2020-2027"]

YieldInit ==
    /\ entry \in {"main", "generate_monthly_data"}
    /\ yield_data = <<>>
    /\ records = <<>>
    /\ summary = <<>>
    /\ charts = <<>>
    /\ dp_i = 1
    /\ month = 1
    /\ yield_pc = "generate"

YieldIdle ==
    /\ entry = "none" /\ yield_data = <<>> /\ records = <<>> /\ summary = <<>>
    /\ charts = <<>> /\ dp_i = 0 /\ month = 0 /\ yield_pc = "idle"

YieldFrame == UNCHANGED <<aggVars, idxVars, anomVars, runVars, stdVars, pipeVars, bndVars, plotVars>>

\* data = generate_vietnam_coffee_yield_data()
Yield_Generate ==
    /\ yield_pc = "generate"
    /\ yield_data' = generate_vietnam_coffee_yield_data
    /\ yield_pc' = IF entry = "main" THEN "print_summary" ELSE "monthly"
    /\ UNCHANGED <<entry, records, summary, charts, dp_i, month>>
    /\ YieldFrame

\* generate_monthly_data: one pass of the inner loop (one record); the
\* DataFrame is built after the last one
Yield_MonthlyRecord ==
    /\ yield_pc = "monthly"
    /\ records' = Append(records, MonthlyRecord(yield_data[dp_i], month))
    /\ IF month < 12
       THEN month' = month + 1 /\ UNCHANGED <<dp_i, yield_pc>>
       ELSE /\ month' = 1
            /\ dp_i' = dp_i + 1
            /\ yield_pc' = IF dp_i = Len(yield_data) THEN "done" ELSE "monthly"
    /\ UNCHANGED <<entry, yield_data, summary, charts>>
    /\ YieldFrame

\* print_summary(data)
Yield_PrintSummary ==
    /\ yield_pc = "print_summary"
    /\ summary' = KeyFigures(yield_data)
    /\ yield_pc' = "export"
    /\ UNCHANGED <<entry, yield_data, records, charts, dp_i, month>>
    /\ YieldFrame

\* export_data_csv: one pass of the loop (one record); the file is written
\* after the last one
Yield_ExportRecord ==
    /\ yield_pc = "export"
    /\ records' = Append(records, CsvRecord(yield_data[dp_i]))
    /\ dp_i' = dp_i + 1
    /\ yield_pc' = IF dp_i = Len(yield_data) THEN "chart_dark" ELSE "export"
    /\ UNCHANGED <<entry, yield_data, summary, charts, month>>
    /\ YieldFrame

\* create_booth_visualization(..., show_numbers=False), then (..., True)
Yield_BoothChart ==
    /\ yield_pc \in {"chart_dark", "chart_numbers"}
    /\ charts' = Append(charts, BoothSeries(yield_data, yield_pc = "chart_numbers"))
    /\ yield_pc' = IF yield_pc = "chart_dark" THEN "chart_numbers" ELSE "chart_simple"
    /\ UNCHANGED <<entry, yield_data, records, summary, dp_i, month>>
    /\ YieldFrame

\* create_simple_booth_chart: the same series in t/ha, the bounds that are set
Yield_SimpleChart ==
    /\ yield_pc = "chart_simple"
    /\ LET b == BoothSeries(yield_data, FALSE)
           kept(x) == x # None /\ x # Some(0)
           tha(seq) == [i \in 1..Len(seq) |-> Frac(seq[i], 1000)]
           opt(seq) == [i \in 1..Len(seq) |-> Frac(seq[i][1], 1000)]
       IN  charts' = Append(charts,
               [hist_years |-> b.hist_years, hist_yields |-> tha(b.hist_yields),
                fore_years |-> b.fore_years, fore_yields |-> tha(b.fore_yields),
                fore_lower |-> opt(<<b.fore_lower[1]>> \o SelectSeq(Tail(b.fore_lower), kept)),
                fore_upper |-> opt(<<b.fore_upper[1]>> \o SelectSeq(Tail(b.fore_upper), kept)),
                annotations |-> <<>>])
    /\ yield_pc' = "done"
    /\ UNCHANGED <<entry, yield_data, records, summary, dp_i, month>>
    /\ YieldFrame

----------------------------------------------------------------------------
(* The scripts 01 .. 05 as runs over the file system: the paths each one
   reads and writes, in the order of its main() *)

\* the path constants of 01_inspect_and_standardise.py
S01 ==
    [ RAW_PATH |->
          "/Users/tommylees/data/weather/raw/vnm_1980_2025.zarr",
      INTERIM_PATH |->
          "/Users/tommylees/data/weather/interim/vnm_1980_2025.zarr",
      Figure |->
          "/Users/tommylees/github/vietnam_coffee_synthetic/artefacts/weather_risk/01_spatial_verification.png" ]

\* the path constants of 02_areal_aggregation.py
S02 ==
    [ INTERIM_PATH |->
          "/Users/tommylees/data/weather/interim/vnm_1980_2025.zarr",
      BOUNDARIES_PATH |->
          "/Users/tommylees/data/raw/boundaries/all_geoboundaries_processed.parquet" ]
Levels == <<"ADM0", "ADM1", "ADM2">>
\* BOUNDS_OUTPUT_DIR / f"vnm_{level.lower()}.parquet"
S02_BoundsOutput(level) ==
    CASE level = "ADM0" -> "/Users/tommylees/data/weather/boundaries/vnm_adm0.parquet"
      [] level = "ADM1" -> "/Users/tommylees/data/weather/boundaries/vnm_adm1.parquet"
      [] level = "ADM2" -> "/Users/tommylees/data/weather/boundaries/vnm_adm2.parquet"
\* OUTPUT_DIR / f"vnm_{level.lower()}_1980_2025.zarr"
S02_AggOutput(level) ==
    CASE level = "ADM0" ->
           "/Users/tommylees/data/weather/processed/areal_aggregation/vnm_adm0_1980_2025.zarr"
      [] level = "ADM1" ->
           "/Users/tommylees/data/weather/processed/areal_aggregation/vnm_adm1_1980_2025.zarr"
      [] level = "ADM2" ->
           "/Users/tommylees/data/weather/processed/areal_aggregation/vnm_adm2_1980_2025.zarr"

\* the path constants of 03_climatology.py
S03 ==
    [ INPUT_PATH |->
          "/Users/tommylees/data/weather/processed/areal_aggregation/vnm_adm1_1980_2025.zarr",
      OUTPUT_PATH |->
          "/Users/tommylees/data/weather/processed/climatology/vnm_adm1_climatology.zarr",
      TREND_PATH |->
          "/Users/tommylees/data/weather/processed/climatology/vnm_adm1_trend_params.zarr" ]

\* the path constants of 04_indices_and_anomalies.py
S04 ==
    [ AGG_PATH |->
          "/Users/tommylees/data/weather/processed/areal_aggregation/vnm_adm1_1980_2025.zarr",
      CLIM_PATH |->
          "/Users/tommylees/data/weather/processed/climatology/vnm_adm1_climatology.zarr",
      TREND_PATH |->
          "/Users/tommylees/data/weather/processed/climatology/vnm_adm1_trend_params.zarr",
      INDICES_OUTPUT |->
          "/Users/tommylees/data/weather/processed/indices/vnm_adm1_indices_2020_2025.zarr",
      INDICES_FULL_OUTPUT |->
          "/Users/tommylees/data/weather/processed/indices/vnm_adm1_indices_1980_2025.zarr",
      ANOMALIES_OUTPUT |->
          "/Users/tommylees/data/weather/processed/anomalies/vnm_adm1_anomalies_2020_2025.zarr" ]

\* the path constants of 05_visualise.py
S05 ==
    [ RAW_GRID_PATH |->
          "/Users/tommylees/data/weather/raw/vnm_1980_2025.zarr",
      AGG_PATH |->
          "/Users/tommylees/data/weather/processed/areal_aggregation/vnm_adm1_1980_2025.zarr",
      CLIM_PATH |->
          "/Users/tommylees/data/weather/processed/climatology/vnm_adm1_climatology.zarr",
      TREND_PATH |->
          "/Users/tommylees/data/weather/processed/climatology/vnm_adm1_trend_params.zarr",
      INDICES_PATH |->
          "/Users/tommylees/data/weather/processed/indices/vnm_adm1_indices_2020_2025.zarr",
      INDICES_FULL_PATH |->
          "/Users/tommylees/data/weather/processed/indices/vnm_adm1_indices_1980_2025.zarr",
      ANOMALIES_PATH |->
          "/Users/tommylees/data/weather/processed/anomalies/vnm_adm1_anomalies_2020_2025.zarr",
      BOUNDS_ADM0_PATH |->
          "/Users/tommylees/data/weather/boundaries/vnm_adm0.parquet",
      BOUNDS_PATH |->
          "/Users/tommylees/data/weather/boundaries/vnm_adm1.parquet",
      Figures |->
          "/Users/tommylees/github/vietnam_coffee_synthetic/artefacts/weather_risk/*.png (05)" ]


\* one file-system operation of a script: a read that raises when the path
\* is missing, a read guarded by exists(), or a write
Read(path) == [kind |-> "read", path |-> path]
ReadIfExists(path) == [kind |-> "read_if_exists", path |-> path]
Write(path) == [kind |-> "write", path |-> path]

\* mutant of Ops04: the recent indices are written over the climatology store
Ops04_OverClimatology ==
    << Read(S04.AGG_PATH), Read(S04.CLIM_PATH), ReadIfExists(S04.TREND_PATH),
       Write(S04.INDICES_FULL_OUTPUT), Write(S04.CLIM_PATH),
       Write(S04.ANOMALIES_OUTPUT) >>

Ops01 == << Read(S01.RAW_PATH), Write(S01.INTERIM_PATH), Write(S01.Figure) >>
Ops02 ==
    << Read(S02.BOUNDARIES_PATH) >>
    \o [i \in 1..Len(Levels) |-> Write(S02_BoundsOutput(Levels[i]))]
    \o << Read(S02.INTERIM_PATH) >>
    \o [i \in 1..Len(Levels) |-> Write(S02_AggOutput(Levels[i]))]
\* the trend parameters are saved only when the climatology run produced some
Ops03(has_trend_params) ==
    << Read(S03.INPUT_PATH), Write(S03.OUTPUT_PATH) >>
    \o (IF has_trend_params THEN << Write(S03.TREND_PATH) >> ELSE << >>)
Ops04 ==
    << Read(S04.AGG_PATH), Read(S04.CLIM_PATH), ReadIfExists(S04.TREND_PATH),
       Write(S04.INDICES_FULL_OUTPUT), Write(S04.INDICES_OUTPUT),
       Write(S04.ANOMALIES_OUTPUT) >>
\* the trend parameters are looked for only inside the climatology branch
Ops05(on_disk) ==
    << Read(S05.AGG_PATH), Read(S05.BOUNDS_PATH), Read(S05.BOUNDS_ADM0_PATH),
       Write(S05.Figures), ReadIfExists(S05.RAW_GRID_PATH),
       ReadIfExists(S05.CLIM_PATH) >>
    \o (IF S05.CLIM_PATH \in on_disk THEN << ReadIfExists(S05.TREND_PATH) >> ELSE << >>)
    \o << ReadIfExists(S05.ANOMALIES_PATH), ReadIfExists(S05.INDICES_PATH),
          ReadIfExists(S05.INDICES_FULL_PATH) >>

\* every path a script names
Paths ==
    {S01.RAW_PATH, S01.INTERIM_PATH, S01.Figure, S02.BOUNDARIES_PATH,
     S03.OUTPUT_PATH, S03.TREND_PATH, S04.INDICES_OUTPUT,
     S04.INDICES_FULL_OUTPUT, S04.ANOMALIES_OUTPUT, S05.Figures}
    \cup {S02_BoundsOutput(Levels[i]) : i \in 1..Len(Levels)}
    \cup {S02_AggOutput(Levels[i]) : i \in 1..Len(Levels)}

\* the run of a script: its operations in order, up to the first read of a
\* missing path, which raises
RECURSIVE Exec(_, _, _)
Exec(st, script_no, ops) ==
    IF ops = << >> THEN st
    ELSE LET op == Head(ops)
             there == op.path \in st.disk
         IN  IF op.kind = "write"
             THEN Exec([st EXCEPT !.disk = @ \cup {op.path},
                                  !.written_by[op.path] = @ \cup {script_no}],
                       script_no, Tail(ops))
             ELSE IF there
                  THEN Exec([st EXCEPT !.read_by[op.path] = @ \cup {script_no}],
                            script_no, Tail(ops))
                  ELSE IF op.kind = "read"
                       THEN [st EXCEPT !.crashed = @ \cup {script_no}]
                       ELSE Exec(st, script_no, Tail(ops))

RunScript(script_no, ops) ==
    LET st == Exec([disk |-> disk, read_by |-> read_by, written_by |-> written_by,
                    crashed |-> crashed \ {script_no}], script_no, ops)
    IN  /\ disk' = st.disk
        /\ read_by' = st.read_by
        /\ written_by' = st.written_by
        /\ crashed' = st.crashed

\* how many runs of step 03 are followed
MaxRuns03 == 2

\* the raw grid and the boundary source come from outside the pipeline
ExternalInputs == {S01.RAW_PATH, S02.BOUNDARIES_PATH}

PipeInit ==
    /\ disk \in SUBSET ExternalInputs
    /\ read_by = [p \in Paths |-> {}]
    /\ written_by = [p \in Paths |-> {}]
    /\ crashed = {}
    /\ runs03 = 0
    /\ store_run = [p \in {S03.OUTPUT_PATH, S03.TREND_PATH} |-> 0]
    /\ loaded04 = [clim |-> 0, trend |-> 0, retrend |-> FALSE]

PipeIdle ==
    /\ disk = {} /\ read_by = << >> /\ written_by = << >> /\ crashed = {}
    /\ runs03 = 0 /\ store_run = << >> /\ loaded04 = << >>

PipeFrame == UNCHANGED <<aggVars, idxVars, anomVars, runVars, stdVars, yieldVars, bndVars, plotVars>>

Pipe_01 ==
    RunScript(1, Ops01) /\ UNCHANGED <<runs03, store_run, loaded04>> /\ PipeFrame
Pipe_02 ==
    RunScript(2, Ops02) /\ UNCHANGED <<runs03, store_run, loaded04>> /\ PipeFrame

\* save_climatology_output: the climatology store is removed and written
\* anew; the trend store is removed and written anew only when the run has
\* trend parameters, and is left as it is otherwise
Pipe_03 ==
    /\ runs03 < MaxRuns03
    /\ \E has_trend_params \in BOOLEAN :
        /\ RunScript(3, Ops03(has_trend_params))
        /\ store_run' =
              IF 3 \in crashed' THEN store_run
              ELSE [store_run EXCEPT
                      ![S03.OUTPUT_PATH] = runs03 + 1,
                      ![S03.TREND_PATH] = IF has_trend_params THEN runs03 + 1 ELSE @]
    /\ runs03' = runs03 + 1
    /\ UNCHANGED loaded04
    /\ PipeFrame

\* main of step 04 opens CLIM_PATH, and the trend parameters whenever
\* TREND_PATH exists; compute_anomalies then retrends with them
Pipe_04 ==
    /\ RunScript(4, Ops04)
    /\ loaded04' =
          IF 4 \in crashed' THEN loaded04
          ELSE [clim |-> store_run[S04.CLIM_PATH],
                trend |-> IF S04.TREND_PATH \in disk THEN store_run[S04.TREND_PATH] ELSE 0,
                retrend |-> S04.TREND_PATH \in disk]
    /\ UNCHANGED <<runs03, store_run>>
    /\ PipeFrame
Pipe_05 ==
    RunScript(5, Ops05(disk)) /\ UNCHANGED <<runs03, store_run, loaded04>> /\ PipeFrame

----------------------------------------------------------------------------
(* 02_areal_aggregation.py: extract_vietnam_boundaries, and the region
   names main() attaches to each level's aggregation *)

\* how many rows the boundary table has at most
MaxBndRows == 3

BndRow(shapegroup, shapetype, geoid, geoname, geometry) ==
    [shapegroup |-> shapegroup, shapetype |-> shapetype, geoid |-> geoid,
     geoname |-> geoname, geometry |-> geometry]

\* the rows a table is made of: the country, provinces (two of them share a
\* geoid), a district, a province of another country, a row of another type
BndRows ==
    { BndRow("VNM", "ADM0", "vnm", "vietnam", "poly0"),
      BndRow("VNM", "ADM1", "g1", "gia lai", "poly1"),
      BndRow("VNM", "ADM1", "g1", "kon tum", "poly2"),
      BndRow("VNM", "ADM1", "g2", "kon tum", "poly3"),
      BndRow("VNM", "ADM2", "g3", "pleiku", "poly4"),
      BndRow("LAO", "ADM1", "g1", "attapeu", "poly5"),
      BndRow("VNM", "ADM3", "g4", "ward", "poly6") }
BndTables == UNION {[1..n -> BndRows] : n \in 0..MaxBndRows}

LevelSet == {Levels[i] : i \in 1..Len(Levels)}

\* mutant of extract_vietnam_boundaries: the country filter is left out
extract_vietnam_boundaries_AnyCountry(table) ==
    [level \in LevelSet |-> SelectSeq(table, LAMBDA r : r.shapetype = level)]

\* vnm = gdf[gdf["shapegroup"] == "VNM"], then per level
\* vnm[vnm["shapetype"] == level]
extract_vietnam_boundaries(table) ==
    LET vnm == SelectSeq(table, LAMBDA r : r.shapegroup = "VNM")
    IN  [level \in LevelSet |-> SelectSeq(vnm, LAMBDA r : r.shapetype = level)]

\* names = gdf.set_index("geoid")["geoname"].to_dict(); names.get(gid, ""):
\* the dict keeps, for a geoid, the geoname of the last row that has it
RegionName(table, gid) ==
    LET rows == {k \in 1..Len(table) : table[k].geoid = gid}
    IN  IF rows = {} THEN ""
        ELSE table[CHOOSE k \in rows : \A m \in rows : m <= k].geoname

\* one pass of the loop of main() over the levels: the geoid coordinate of
\* aggregate_to_regions, the geometry each column was aggregated with
\* (geometry.iloc[0] of the rows of that geoid), and region_name
AggregateLevel(table) ==
    LET ids == Unique(table, Len(table))
    IN  [geoid |-> ids,
         geometry |-> [i \in 1..Len(ids) |-> RegionGeometry(table, ids[i])[1]],
         region_name |-> [i \in 1..Len(ids) |-> RegionName(table, ids[i])]]

BndInit ==
    /\ bnd_table \in BndTables
    /\ boundaries = <<>>
    /\ parquet = <<>>
    /\ agg_out = <<>>
    /\ bnd_level = 0
    /\ bnd_pc = "extract"

BndIdle ==
    /\ bnd_table = <<>> /\ boundaries = <<>> /\ parquet = <<>>
    /\ agg_out = <<>> /\ bnd_level = 0 /\ bnd_pc = "idle"

BndFrame ==
    UNCHANGED <<aggVars, idxVars, anomVars, runVars, stdVars, yieldVars, pipeVars,
                plotVars>>

\* boundaries = extract_vietnam_boundaries(): the filter, and every level
\* written to BOUNDS_OUTPUT_DIR / f"vnm_{level.lower()}.parquet"
Bnd_Extract ==
    /\ bnd_pc = "extract"
    /\ boundaries' = extract_vietnam_boundaries(bnd_table)
    /\ parquet' = [p \in {S02_BoundsOutput(l) : l \in LevelSet} |->
                     boundaries'[CHOOSE l \in LevelSet : S02_BoundsOutput(l) = p]]
    /\ bnd_level' = 1
    /\ bnd_pc' = "aggregate"
    /\ UNCHANGED <<bnd_table, agg_out>>
    /\ BndFrame

\* for level in ["ADM0", "ADM1", "ADM2"]: aggregate, attach region_name
Bnd_AggregateLevel ==
    /\ bnd_pc = "aggregate"
    /\ LET level == Levels[bnd_level]
       IN  agg_out' = [l \in DOMAIN agg_out \cup {level} |->
                         IF l = level THEN AggregateLevel(boundaries[level])
                         ELSE agg_out[l]]
    /\ IF bnd_level < Len(Levels)
       THEN bnd_level' = bnd_level + 1 /\ UNCHANGED bnd_pc
       ELSE bnd_pc' = "done" /\ UNCHANGED bnd_level
    /\ UNCHANGED <<bnd_table, boundaries, parquet>>
    /\ BndFrame

----------------------------------------------------------------------------
(* 05_visualise.py: the region selection of main() and the seasons of
   plot_dayofyear_indices *)

COFFEE_PROVINCES == {"gia lai", "kon tum", "lam ??ng", "??k l?k", "??k nong"}

RECURSIVE get_coffee_region_ids(_, _, _)
\* the loop over ds.geoid.values, up to its k-th pass: a geoid is appended
\* when it is in gdf["geoid"] and the geoname of its first row is a coffee
\* province
get_coffee_region_ids(geoids, table, k) ==
    IF k = 0 THEN <<>>
    ELSE LET ids == get_coffee_region_ids(geoids, table, k - 1)
             rows == SelectSeq(table, LAMBDA r : r.geoid = geoids[k])
         IN  IF rows # <<>> /\ rows[1].geoname \in COFFEE_PROVINCES
             THEN Append(ids, geoids[k]) ELSE ids

\* mutant of CoffeeIdsOrAll: no fallback to all regions
CoffeeIdsOrAll_NoFallback(geoids, table) ==
    get_coffee_region_ids(geoids, table, Len(geoids))

\* coffee_ids of main(): all geoids of the dataset when none is a coffee
\* region
CoffeeIdsOrAll(geoids, table) ==
    LET ids == get_coffee_region_ids(geoids, table, Len(geoids))
    IN  IF Len(ids) = 0 THEN geoids ELSE ids

\* the figures whose plot function takes coffee_ids, in the order of main()
PlotCalls ==
    << "00_coffee_regions_map.png", "02_time_series_vs_climatology.png",
       "02b_time_series_minimal.png", "03_monthly_anomalies.png",
       "04_index_dashboard.png", "07_dayofyear_indices.png",
       "05_annual_comparison.png" >>

\* current_season="2024-2025": current_start_year
current_start_year == 2024
\* is_complete = valid_days >= 360
CompleteDays == 360

\* how many season years the full indices may cover, the last being the
\* season that starts in October 2025
NSeasons == 3
SeasonYears == (2026 - NSeasons)..2025

\* the rows a season has in the data and how many of its cumulative values
\* are not NaN: a full season, full seasons with 5 and 6 missing days, the
\* months January to September only, the months October to December only
DayOptions ==
    { [rows |-> 365, valid |-> 360], [rows |-> 365, valid |-> 359],
      [rows |-> 274, valid |-> 274], [rows |-> 92, valid |-> 92] }

RECURSIVE SortedSeq(_)
\* sorted(df["season_year"].unique())
SortedSeq(S) ==
    IF S = {} THEN <<>>
    ELSE LET m == CHOOSE x \in S : \A y \in S : x <= y
         IN  <<m>> \o SortedSeq(S \ {m})
seasons == SortedSeq(DOMAIN season_days)

\* the region tables the runs start from
PlotGeoids == {<<>>, <<"g1">>, <<"g1", "g2">>}
PlotGdfs ==
    { << [geoid |-> "g1", geoname |-> "gia lai"], [geoid |-> "g2", geoname |-> "ha noi"] >>,
      << [geoid |-> "g1", geoname |-> "ha noi"], [geoid |-> "g2", geoname |-> "kon tum"] >>,
      << [geoid |-> "g1", geoname |-> "ha noi"], [geoid |-> "g1", geoname |-> "gia lai"] >>,
      << [geoid |-> "g1", geoname |-> "ha noi"], [geoid |-> "g2", geoname |-> "hue"] >>,
      << [geoid |-> "g2", geoname |-> "gia lai"] >> }

PlotInit ==
    /\ plot_geoids \in PlotGeoids
    /\ plot_gdf \in PlotGdfs
    /\ \E S \in SUBSET SeasonYears : season_days \in [S -> DayOptions]
    /\ coffee_ids = <<>>
    /\ plot_printed = {}
    /\ selections = <<>>
    /\ call_i = 0
    /\ season_i = 0
    /\ all_season_data = {}
    /\ grey_lines = {}
    /\ n_historical = -1
    /\ plot_pc = "coffee_ids"

PlotIdle ==
    /\ plot_geoids = <<>> /\ plot_gdf = <<>> /\ coffee_ids = <<>>
    /\ plot_printed = {} /\ selections = <<>> /\ call_i = 0
    /\ season_days = <<>> /\ season_i = 0 /\ all_season_data = {}
    /\ grey_lines = {} /\ n_historical = -1 /\ plot_pc = "idle"

PlotFrame ==
    UNCHANGED <<aggVars, idxVars, anomVars, runVars, stdVars, yieldVars, pipeVars,
                bndVars>>

\* coffee_ids = get_coffee_region_ids(ds_agg, gdf), the warning, the fallback
Plot_CoffeeIds ==
    /\ plot_pc = "coffee_ids"
    /\ coffee_ids' = CoffeeIdsOrAll(plot_geoids, plot_gdf)
    /\ plot_printed' =
          IF Len(get_coffee_region_ids(plot_geoids, plot_gdf, Len(plot_geoids))) = 0
          THEN plot_printed \cup {"WARNING: No coffee regions found, using all regions"}
          ELSE plot_printed
    /\ call_i' = 1
    /\ plot_pc' = "plot"
    /\ UNCHANGED <<plot_geoids, plot_gdf, selections, season_days, season_i,
                   all_season_data, grey_lines, n_historical>>
    /\ PlotFrame

\* the position after the plot call at call_i
AfterCall == IF call_i < Len(PlotCalls) THEN "plot" ELSE "done"

\* a plot function other than plot_dayofyear_indices: it selects
\* ds.sel(geoid=coffee_ids), or the rows whose geoid isin(coffee_ids)
Plot_Figure ==
    /\ plot_pc = "plot"
    /\ PlotCalls[call_i] # "07_dayofyear_indices.png"
    /\ selections' = [f \in DOMAIN selections \cup {PlotCalls[call_i]} |->
                         IF f = PlotCalls[call_i] THEN coffee_ids ELSE selections[f]]
    /\ plot_pc' = AfterCall
    /\ call_i' = IF call_i < Len(PlotCalls) THEN call_i + 1 ELSE call_i
    /\ UNCHANGED <<plot_geoids, plot_gdf, coffee_ids, plot_printed, season_days,
                   season_i, all_season_data, grey_lines, n_historical>>
    /\ PlotFrame

\* plot_dayofyear_indices up to the loop over the seasons
Doy_Start ==
    /\ plot_pc = "plot"
    /\ PlotCalls[call_i] = "07_dayofyear_indices.png"
    /\ selections' = [f \in DOMAIN selections \cup {PlotCalls[call_i]} |->
                         IF f = PlotCalls[call_i] THEN coffee_ids ELSE selections[f]]
    /\ all_season_data' = {}
    /\ grey_lines' = {}
    /\ season_i' = 1
    /\ plot_pc' = IF seasons = <<>> THEN "title" ELSE "seasons"
    /\ UNCHANGED <<plot_geoids, plot_gdf, coffee_ids, plot_printed, call_i,
                   season_days, n_historical>>
    /\ PlotFrame

\* one pass of "for season in seasons"
Doy_Season ==
    /\ plot_pc = "seasons"
    /\ LET season == seasons[season_i]
           valid_days == season_days[season].valid
           is_complete == valid_days >= CompleteDays
           is_current == season = current_start_year
       IN  /\ all_season_data' =
                 IF season # current_start_year /\ is_complete
                 THEN all_season_data \cup {season} ELSE all_season_data
           /\ grey_lines' =
                 IF ~is_current /\ is_complete
                 THEN grey_lines \cup {season} ELSE grey_lines
    /\ IF season_i < Len(seasons)
       THEN season_i' = season_i + 1 /\ UNCHANGED plot_pc
       ELSE plot_pc' = "title" /\ UNCHANGED season_i
    /\ UNCHANGED <<plot_geoids, plot_gdf, coffee_ids, plot_printed, selections,
                   call_i, season_days, n_historical>>
    /\ PlotFrame

\* n_historical = len(seasons) - 1 if seasons else 0, put into the title
Doy_Title ==
    /\ plot_pc = "title"
    /\ n_historical' = IF seasons # <<>> THEN Len(seasons) - 1 ELSE 0
    /\ plot_pc' = AfterCall
    /\ call_i' = IF call_i < Len(PlotCalls) THEN call_i + 1 ELSE call_i
    /\ UNCHANGED <<plot_geoids, plot_gdf, coffee_ids, plot_printed, selections,
                   season_days, season_i, all_season_data, grey_lines>>
    /\ PlotFrame

----------------------------------------------------------------------------
(* Specifications *)

\* areal aggregation (02_areal_aggregation.py)
Init == AggInit /\ IdxIdle /\ AnomIdle /\ RunIdle /\ StdIdle /\ YieldIdle /\ PipeIdle /\ BndIdle /\ PlotIdle
Next == (\E idx \in 1..n_regions : ProcessRegion(idx)) \/ ReturnOutput
Spec == Init /\ [][Next]_vars

\* daily indices (04_indices_and_anomalies.py, compute_daily_indices)
InitIdx == IdxInit /\ AggIdle /\ AnomIdle /\ RunIdle /\ StdIdle /\ YieldIdle /\ PipeIdle /\ BndIdle /\ PlotIdle
NextIdx == ComputeDailyIndices \/ ComputeRecentIndices
SpecIdx == InitIdx /\ [][NextIdx]_vars

\* anomalies and z-scores (04_indices_and_anomalies.py, compute_anomalies)
InitAnom == AnomInit /\ AggIdle /\ IdxIdle /\ RunIdle /\ StdIdle /\ YieldIdle /\ PipeIdle /\ BndIdle /\ PlotIdle
NextAnom == ComputeAnomalies
SpecAnom == InitAnom /\ [][NextAnom]_vars

\* one run of main() of step 04 or of step 05 over the stores on disk
InitRun == RunInit /\ AggIdle /\ IdxIdle /\ AnomIdle /\ StdIdle /\ YieldIdle /\ PipeIdle /\ BndIdle /\ PlotIdle
NextRun ==
    \/ Vis_Load \/ Vis_GriddedMap \/ Vis_TimeSeries \/ Vis_AnomalyPlot
    \/ Vis_IndexDashboard \/ Vis_DayOfYear \/ Vis_Annual
    \/ Ind_Load \/ Ind_FullIndices \/ Ind_RecentIndices \/ Ind_Anomalies
SpecRun == InitRun /\ [][NextRun]_vars

\* one run of main() of step 01 over a raw store
InitStd == StdInit /\ AggIdle /\ IdxIdle /\ AnomIdle /\ RunIdle /\ YieldIdle /\ PipeIdle /\ BndIdle /\ PlotIdle
NextStd ==
    \/ Std_Open \/ Std_Rename \/ Std_ConvertUnits
    \/ Std_AddCfAttrs \/ Std_Save \/ Std_SpatialPlot
SpecStd == InitStd /\ [][NextStd]_vars

\* one run of main() or of generate_monthly_data() of main.py
InitYield == YieldInit /\ AggIdle /\ IdxIdle /\ AnomIdle /\ RunIdle /\ StdIdle /\ PipeIdle /\ BndIdle /\ PlotIdle
NextYield ==
    \/ Yield_Generate \/ Yield_MonthlyRecord \/ Yield_PrintSummary
    \/ Yield_ExportRecord \/ Yield_BoothChart \/ Yield_SimpleChart
SpecYield == InitYield /\ [][NextYield]_vars

\* the scripts 01 .. 05, run in any order and any number of times
InitPipe == PipeInit /\ AggIdle /\ IdxIdle /\ AnomIdle /\ RunIdle /\ StdIdle /\ YieldIdle /\ BndIdle /\ PlotIdle
NextPipe == Pipe_01 \/ Pipe_02 \/ Pipe_03 \/ Pipe_04 \/ Pipe_05
SpecPipe == InitPipe /\ [][NextPipe]_vars

\* main() of step 02: the boundaries, then the levels in order
InitBnd == BndInit /\ AggIdle /\ IdxIdle /\ AnomIdle /\ RunIdle /\ StdIdle /\ YieldIdle /\ PipeIdle /\ PlotIdle
NextBnd == Bnd_Extract \/ Bnd_AggregateLevel
SpecBnd == InitBnd /\ [][NextBnd]_vars

\* main() of step 05 from the region selection on
InitPlot == PlotInit /\ AggIdle /\ IdxIdle /\ AnomIdle /\ RunIdle /\ StdIdle /\ YieldIdle /\ PipeIdle /\ BndIdle
NextPlot == Plot_CoffeeIds \/ Plot_Figure \/ Doy_Start \/ Doy_Season \/ Doy_Title
SpecPlot == InitPlot /\ [][NextPlot]_vars

----------------------------------------------------------------------------
(* Properties of the areal aggregation *)

\* the polygon used for loop index idx, and the grid cells whose centre it holds
GeomOf(idx) == RegionGeometry(gdf, region_ids[idx])[1]
Contained(geom) == {c \in Cells : Contains(geom, Lons[c[2]], Lats[c[1]])}
WeightsOf(idx) == create_weight_mask(RegionGeometry(gdf, region_ids[idx]))
Processed(idx) == idx \in 1..n_regions /\ idx \notin todo

\* C1: the weight mask of a region holding k >= 1 cell centres gives each of
\* them 1/k and every other cell 0, so it sums to 1; the mask of a region
\* holding no cell centre is all zero.
C1_MaskNormalised ==
    \A idx \in 1..n_regions :
        LET inside == Contained(GeomOf(idx))
            k == Cardinality(inside)
            w == WeightsOf(idx)
        IN  /\ k >= 1 => /\ MaskSum(w) = One
                         /\ \A c \in Cells :
                              w[c] = IF c \in inside THEN Frac(1, k) ELSE Zero
            /\ k = 0 => \A c \in Cells : w[c] = Zero

\* witness of C1: a region holding two cells and a region holding none have
\* both been aggregated
C1_Witness ==
    /\ pc = "done"
    /\ \E i, j \in 1..n_regions :
        /\ Cardinality(Contained(GeomOf(i))) = 2 /\ branch[i] = "weighted"
        /\ Cardinality(Contained(GeomOf(j))) = 0 /\ branch[j] = "nearest"

\* squared distance (doubled coordinates) from a cell centre to a centroid
Dist2(c, cen) ==
    (2 * Lons[c[2]] - cen[1]) * (2 * Lons[c[2]] - cen[1])
    + (2 * Lats[c[1]] - cen[2]) * (2 * Lats[c[1]] - cen[2])

\* C2: a region holding no cell centre takes the nearest-cell branch, and its
\* column of every variable is, at every time step, the raw value of one grid
\* cell at minimal distance from the region's centroid (no weighting).
C2_FallbackIsNearestCell ==
    \A idx \in 1..n_regions :
        (Processed(idx) /\ Contained(GeomOf(idx)) = {}) =>
            /\ branch[idx] = "nearest"
            /\ \E c \in Cells :
                /\ \A m \in Cells :
                     Dist2(c, Centroid2(GeomOf(idx))) <= Dist2(m, Centroid2(GeomOf(idx)))
                /\ \A v \in GridVars : \A t \in Times :
                     output_data[v][t][idx] = ds[v][t][c]

\* witness of C2: a region between grid points, nearest to a cell other than
\* the first, has been given that cell's series
C2_Witness ==
    \E idx \in 1..n_regions :
        /\ Processed(idx) /\ branch[idx] = "nearest"
        /\ GeomOf(idx) = Rect(1, 3, 2, 3)
        /\ output_data["tas"][1][idx] = Num(26)

\* the plain mean of a field over a set of cells (NaN when one of them is NaN)
PlainMean(field, inside) ==
    FDiv(SumSeq([c \in Cells |-> IF c \in inside THEN field[c] ELSE Zero],
                CellSeq, Len(CellSeq)),
         Num(Cardinality(inside)))

\* C3: for a region holding at least one cell centre, the aggregated value of
\* every variable at every time step is the plain mean of the contained cells.
\* (The original statement; the code yields NaN instead whenever a cell outside
\* the region is NaN, because NaN * 0 is NaN in sum(grid_values * weights).)
C3_WeightedIsPlainMean ==
    \A idx \in 1..n_regions :
        (Processed(idx) /\ Contained(GeomOf(idx)) # {}) =>
            \A v \in GridVars : \A t \in Times :
                output_data[v][t][idx] = PlainMean(ds[v][t], Contained(GeomOf(idx)))

\* C7: in the weighted branch, a NaN grid cell with non-zero weight makes the
\* region's aggregated value of that variable and time step NaN.
C7_NaNPropagates ==
    \A idx \in 1..n_regions :
        (Processed(idx) /\ branch[idx] = "weighted") =>
            \A v \in GridVars : \A t \in Times :
                (\E c \in Cells : WeightsOf(idx)[c] # Zero /\ IsNaN(ds[v][t][c]))
                    => IsNaN(output_data[v][t][idx])

\* witness of C7: a region of two cells, one of them NaN on day 1, aggregated
C7_Witness ==
    \E idx \in 1..n_regions :
        /\ Processed(idx) /\ branch[idx] = "weighted"
        /\ Cardinality(Contained(GeomOf(idx))) = 2
        /\ \E c \in Contained(GeomOf(idx)) : IsNaN(ds["tas"][1][c])
        /\ IsNaN(output_data["tas"][1][idx])
        /\ ~IsNaN(output_data["tas"][2][idx])

\* C9: at every point of every schedule of the loop iterations, the column of
\* a processed region is the value computed from the grid and that region's
\* geometry alone and the column of an unprocessed region is untouched; the
\* finished output equals the output of the sequential loop.
C9_OrderIndependent ==
    /\ \A idx \in 1..n_regions :
         LET col == RegionColumn(ds, gdf, region_ids[idx])
         IN  \A v \in GridVars : \A t \in Times :
                output_data[v][t][idx] = IF idx \in todo THEN Zero ELSE col[v][t]
    /\ pc = "done" => output_data = Sequential(ds, gdf, n_regions)

\* witness of C9: the second region was processed before the first
C9_Witness ==
    /\ n_regions = 2
    /\ todo = {1}
    /\ output_data["tas"][1][2] # Zero

\* C10: the returned dataset holds, for every grid variable and every unique
\* region id, one series over all time steps, and every column was assigned by
\* one of the two branches (none is left unassigned).
C10_EveryColumnAssigned ==
    pc = "done" =>
        /\ todo = {}
        /\ n_regions = Cardinality({gdf[k].geoid : k \in 1..Len(gdf)})
        /\ DOMAIN output_data = GridVars
        /\ \A v \in GridVars :
            /\ DOMAIN output_data[v] = Times
            /\ \A t \in Times : DOMAIN output_data[v][t] = 1..n_regions
        /\ \A idx \in 1..n_regions : branch[idx] \in {"nearest", "weighted"}

\* witness of C10: a finished run over two regions, one per branch
C10_Witness ==
    /\ pc = "done"
    /\ n_regions = 2
    /\ branch[1] = "nearest"
    /\ branch[2] = "weighted"

----------------------------------------------------------------------------
(* Properties of the daily indices *)

DayInput(d, t) == [v \in DOMAIN d |-> d[v][t]]
DayIndices(ix, t) == [n \in DOMAIN ix |-> ix[n][t]]

----------------------------------------------------------------------------
(* Properties of the anomalies *)

C12_ExtremeFlagsStrict ==
    anom_pc = "done" =>
        LET Above(z) == ~IsNaN(z) /\ z[1] > 2 * z[2]
            Below(z) == ~IsNaN(z) /\ z[1] < -2 * z[2]
        IN  /\ "extreme_hot" \in DOMAIN z_scores <=> "tas_zscore" \in DOMAIN z_scores
            /\ "extreme_cold" \in DOMAIN z_scores <=> "tas_zscore" \in DOMAIN z_scores
            /\ "extreme_wet" \in DOMAIN z_scores <=> "pr_zscore" \in DOMAIN z_scores
            /\ "extreme_dry" \in DOMAIN z_scores <=> "pr_zscore" \in DOMAIN z_scores
            /\ "tas_zscore" \in DOMAIN z_scores =>
                \A t \in AnomTimes :
                    /\ z_scores["extreme_hot"][t] = Above(z_scores["tas_zscore"][t])
                    /\ z_scores["extreme_cold"][t] = Below(z_scores["tas_zscore"][t])
                    /\ z_scores["tas_zscore"][t] \in {Num(2), Num(-2)} =>
                          ~z_scores["extreme_hot"][t] /\ ~z_scores["extreme_cold"][t]
            /\ "pr_zscore" \in DOMAIN z_scores =>
                \A t \in AnomTimes :
                    /\ z_scores["extreme_wet"][t] = Above(z_scores["pr_zscore"][t])
                    /\ z_scores["extreme_dry"][t] = Below(z_scores["pr_zscore"][t])
                    /\ z_scores["pr_zscore"][t] \in {Num(2), Num(-2)} =>
                          ~z_scores["extreme_wet"][t] /\ ~z_scores["extreme_dry"][t]

\* witness of C12: tas z-scores -3 (cold flagged) and exactly 2 (no flag)
C12_Witness ==
    /\ anom_pc = "done"
    /\ "tas_zscore" \in DOMAIN z_scores
    /\ z_scores["tas_zscore"][1] = Num(-3)
    /\ z_scores["extreme_cold"][1] /\ ~z_scores["extreme_hot"][1]
    /\ z_scores["tas_zscore"][2] = Num(2)
    /\ ~z_scores["extreme_hot"][2] /\ ~z_scores["extreme_cold"][2]

\* C13: the step that runs compute_anomalies leaves the actual dataset and
\* the climatology dataset, values and attributes, as they were; only the two
\* output datasets are written.
C13_InputsUnchanged ==
    [][(anom_pc = "input" /\ anom_pc' = "done") =>
          /\ ds_actual' = ds_actual
          /\ ds_clim' = ds_clim
          /\ attrs_in' = attrs_in]_vars

\* witness of C13: after the call the outputs hold the anomaly -3 and its
\* attributes while the actual input still holds 19 and its own attribute
C13_Witness ==
    /\ anom_pc = "done"
    /\ "tas" \in DOMAIN anomalies
    /\ anomalies["tas"][1] = Num(-3)
    /\ ds_actual["tas"][1] = Num(19)
    /\ attrs_out.anomalies["tas"] = "tas anomaly"
    /\ attrs_in.actual["tas"] = "Near-Surface Air Temperature"

----------------------------------------------------------------------------
(* Properties of the script runs *)

\* the stores a script must find, and those the claim calls optional
Required(sc) ==
    IF sc = "05" THEN {"AGG_PATH", "BOUNDS_PATH", "BOUNDS_ADM0_PATH"}
    ELSE {"AGG_PATH"}
Optional(sc) ==
    IF sc = "05" THEN {"RAW_GRID_PATH", "CLIM_PATH", "TREND_PATH",
                       "ANOMALIES_PATH", "INDICES_PATH", "INDICES_FULL_PATH"}
    ELSE {"CLIM_PATH", "TREND_PATH"}

\* the message that reports a store as missing
SkipMessage(a) ==
    CASE a = "RAW_GRID_PATH" -> "Skipping gridded map"
      [] a = "CLIM_PATH" -> "Skipping time series plot"
      [] a = "TREND_PATH" -> "Skipping retrending"
      [] a = "ANOMALIES_PATH" -> "Skipping anomaly plot"
      [] a = "INDICES_PATH" -> "Skipping index dashboard"
      [] a = "INDICES_FULL_PATH" -> "Skipping day-of-year plot"

\* the outputs of step 05 that need a store
FiguresOf(a) ==
    CASE a = "RAW_GRID_PATH" -> {"01b_gridded_weather_map.png",
                                 "01c_gridded_weather_map_highres.png"}
      [] a = "CLIM_PATH" -> {"02_time_series_vs_climatology.png",
                             "02b_time_series_minimal.png"}
      [] a = "TREND_PATH" -> {}
      [] a = "ANOMALIES_PATH" -> {"03_monthly_anomalies.png"}
      [] a = "INDICES_PATH" -> {"04_index_dashboard.png"}
      [] a = "INDICES_FULL_PATH" -> {"07_dayofyear_indices.png"}

\* C6 as stated: in a run of step 04 or of step 05 whose required inputs
\* exist, an absent optional store never crashes the run, and at the end of
\* the run a warning about it was printed and nothing that needs it was made.
C6_EveryScriptSkips ==
    \A a \in Optional(script) :
        (script \in {"04", "05"} /\ Required(script) \subseteq files /\ a \notin files) =>
            /\ run_pc # "crashed"
            /\ run_pc = "done" =>
                /\ SkipMessage(a) \in printed
                /\ FiguresOf(a) \cap produced = {}

\* C6 amended: a run of step 05 whose aggregated data and boundary tables
\* exist never crashes, and at its end every absent store among raw grid,
\* climatology, anomalies, indices and full indices has its "Skipping ..."
\* message printed and none of its figures made, while every present one has
\* its figures made; the trend parameters are loaded only inside the
\* climatology branch and their absence only turns retrending off, without a
\* message.  A run of step 04 crashes at its first step, before writing
\* anything, when the aggregated data or the climatology is absent, and
\* otherwise completes, retrending exactly when the trend parameters exist.
C6_SkipsInStep05Only ==
    /\ (script = "05" /\ Required("05") \subseteq files) =>
        /\ run_pc # "crashed"
        /\ run_pc = "done" =>
            /\ \A a \in Optional("05") \ {"TREND_PATH"} :
                IF a \in files
                THEN FiguresOf(a) \subseteq produced /\ SkipMessage(a) \notin printed
                ELSE FiguresOf(a) \cap produced = {} /\ SkipMessage(a) \in printed
            /\ retrend = IF "CLIM_PATH" \notin files THEN "unset"
                         ELSE IF "TREND_PATH" \in files THEN "yes" ELSE "no"
            /\ "Loading trend parameters" \in printed <=> retrend = "yes"
            /\ "Skipping retrending" \notin printed
            /\ {"00_coffee_regions_map.png", "05_annual_comparison.png"} \subseteq produced
    /\ script = "04" =>
        /\ run_pc = "crashed" =>
            /\ ~({"AGG_PATH", "CLIM_PATH"} \subseteq files)
            /\ produced = {} /\ printed = {}
        /\ (run_pc \notin {"load", "crashed"}) =>
            /\ {"AGG_PATH", "CLIM_PATH"} \subseteq files
            /\ retrend = IF "TREND_PATH" \in files THEN "yes" ELSE "no"
            /\ "Skipping retrending" \notin printed
        /\ run_pc = "done" =>
            produced = {"INDICES_FULL_PATH", "INDICES_PATH", "ANOMALIES_PATH"}
    /\ (run_pc \notin {"done", "crashed", "idle"}) => ENABLED NextRun

\* witness of C6: step 05 finished without the climatology, and skipped it
C6_Witness ==
    /\ script = "05" /\ run_pc = "done"
    /\ "CLIM_PATH" \notin files /\ "TREND_PATH" \in files
    /\ "Skipping time series plot" \in printed
    /\ "02_time_series_vs_climatology.png" \notin produced
    /\ "05_annual_comparison.png" \in produced

----------------------------------------------------------------------------
(* Properties of the standardisation *)

Saved == std_pc \in {"plot", "done", "crashed"}

----------------------------------------------------------------------------
(* Properties of the synthetic yield series *)

\* C18: every row with is_forecast = TRUE has lower_bound < yield_kg_ha <
\* upper_bound, the bounds being exactly 90% and 110% of the yield; every
\* historical row has no bounds.
C18_ForecastBounds ==
    yield_pc \notin {"idle", "generate"} =>
        \A i \in 1..Len(yield_data) :
            LET d == yield_data[i]
            IN  IF d.is_forecast
                THEN /\ d.lower_bound # None /\ d.upper_bound # None
                     /\ d.lower_bound[1] < d.yield_kg_ha
                     /\ d.yield_kg_ha < d.upper_bound[1]
                     /\ 10 * d.lower_bound[1] = 9 * d.yield_kg_ha
                     /\ 10 * d.upper_bound[1] = 11 * d.yield_kg_ha
                ELSE d.lower_bound = None /\ d.upper_bound = None

\* witness of C18: the generated list has historical rows and the 2027
\* forecast row with its bounds
C18_Witness ==
    /\ yield_pc = "done"
    /\ Len(yield_data) = 8
    /\ ~yield_data[1].is_forecast
    /\ yield_data[8].is_forecast /\ yield_data[8].year = 2027
    /\ yield_data[8].lower_bound = Some(2655)
    /\ yield_data[8].upper_bound = Some(3245)

----------------------------------------------------------------------------
(* Properties of the pipeline *)

\* the persisted stores: interim grid, boundaries, per-level aggregation,
\* climatology, trend parameters, indices, anomalies
PersistedStores ==
    {S01.INTERIM_PATH, S03.OUTPUT_PATH, S03.TREND_PATH, S04.INDICES_OUTPUT,
     S04.INDICES_FULL_OUTPUT, S04.ANOMALIES_OUTPUT}
    \cup {S02_BoundsOutput(Levels[i]) : i \in 1..Len(Levels)}
    \cup {S02_AggOutput(Levels[i]) : i \in 1..Len(Levels)}

\* C20: whatever scripts have run, in whatever order: every persisted store
\* is written by at most one script, every script that reads it comes later
\* in the order 01 .. 05 than the one that writes it, and no script writes a
\* path that it or an earlier script reads.
C20_StrictlyDownstream ==
    /\ \A p \in PersistedStores : Cardinality(written_by[p]) <= 1
    /\ \A p \in PersistedStores : \A w \in written_by[p] : \A r \in read_by[p] : w < r
    /\ \A p \in Paths : \A w \in written_by[p] : \A r \in read_by[p] : r > w

\* witness of C20: all five scripts have run to their end; the climatology
\* written by 03 was read by 04 and 05, the anomalies written by 04 by 05
C20_Witness ==
    /\ crashed = {}
    /\ \A p \in PersistedStores : Cardinality(written_by[p]) = 1
    /\ written_by[S03.OUTPUT_PATH] = {3} /\ read_by[S03.OUTPUT_PATH] = {4, 5}
    /\ written_by[S04.ANOMALIES_OUTPUT] = {4} /\ read_by[S04.ANOMALIES_OUTPUT] = {5}
    /\ written_by[S01.INTERIM_PATH] = {1} /\ read_by[S01.INTERIM_PATH] = {2}
    /\ read_by[S01.RAW_PATH] = {1, 5}

----------------------------------------------------------------------------
(* Properties of compute_anomalies on an undefined climatology entry *)

\* C23: when the climatological mean looked up for a date is NaN, the call
\* still returns, and for that variable and date the anomaly is NaN, the
\* z-score is NaN and neither of the variable's extreme flags is set.
C23_NaNClimatologyPropagates ==
    anom_pc = "done" =>
        \A v \in DOMAIN anomalies : \A t \in AnomTimes :
            IsNaN(ds_clim[v][Doy(t)].loc) =>
                /\ IsNaN(anomalies[v][t])
                /\ IsNaN(z_scores[ZName(v)][t])
                /\ v = "tas" => (~z_scores["extreme_hot"][t] /\ ~z_scores["extreme_cold"][t])
                /\ v = "pr" => (~z_scores["extreme_dry"][t] /\ ~z_scores["extreme_wet"][t])

\* witness of C23: tas has a finite actual value on a date whose mean is NaN
\* and whose standard deviation is finite; the outputs of that date are NaN
\* and unflagged, those of the other date are finite
C23_Witness ==
    /\ anom_pc = "done"
    /\ "tas" \in DOMAIN anomalies
    /\ \E t \in AnomTimes :
        /\ IsNaN(ds_clim["tas"][Doy(t)].loc)
        /\ ds_clim["tas"][Doy(t)].scale = Frac(3, 2)
        /\ ds_actual["tas"][t] = Num(25)
        /\ IsNaN(anomalies["tas"][t]) /\ IsNaN(z_scores["tas_zscore"][t])
        /\ ~z_scores["extreme_hot"][t] /\ ~z_scores["extreme_cold"][t]
        /\ \E u \in AnomTimes \ {t} : ~IsNaN(anomalies["tas"][u])

----------------------------------------------------------------------------
(* Properties of print_summary *)

\* the percentage change from the yield of year a to the yield of year b in
\* the list, rounded to the nearest percent
PercentChange(dat, a, b) ==
    LET ya == dat[CHOOSE i \in 1..Len(dat) : dat[i].year = a].yield_kg_ha
        yb == dat[CHOOSE i \in 1..Len(dat) : dat[i].year = b].yield_kg_ha
    IN  IF yb >= ya THEN RoundHalfEven(100 * (yb - ya), ya)
        ELSE -RoundHalfEven(100 * (ya - yb), ya)

\* f"{x:+d}% (recovery from drought)"
ChangeText(percent) ==
    (IF percent >= 0 THEN "+" ELSE "") \o ToString(percent)
        \o "% (recovery from drought)"

\* C25: the "Change vs 2025" figure that print_summary prints is the change
\* from the 2025 yield to the 2026 yield of the generated list, in whole
\* percent. (The original statement; the code prints the literal "+6%"
\* while the list gives 2650 -> 2850, that is +7.5%, printed as "+8%".)
C25_ChangeFromData ==
    yield_pc \in {"export", "chart_dark", "chart_numbers", "chart_simple", "done"}
        /\ entry = "main" =>
            summary.change_vs_2025 = ChangeText(PercentChange(yield_data, 2025, 2026))

----------------------------------------------------------------------------
(* Properties of the weighted branch on cells outside the region *)

\* a field with the value of every cell outside the set replaced by x
OutsideSetTo(field, inside, x) ==
    [c \in Cells |-> IF c \in inside THEN field[c] ELSE x]

\* C26: in the weighted branch the aggregated value of a region depends only
\* on the cells of non-zero weight: changing the cells outside the region
\* (here: replacing each of them by 0, whatever it held, NaN included) leaves
\* the value unchanged. (The original statement; NaN * 0 is NaN in
\* sum(grid_values * weights), so a NaN cell outside the region makes the
\* region's value NaN.)
C26_OutsideCellsIgnored ==
    \A idx \in 1..n_regions :
        (Processed(idx) /\ branch[idx] = "weighted") =>
            \A v \in GridVars : \A t \in Times :
                LET inside == {c \in Cells : WeightsOf(idx)[c] # Zero}
                IN  output_data[v][t][idx] =
                        WeightedSum(OutsideSetTo(ds[v][t], inside, Zero), WeightsOf(idx))

----------------------------------------------------------------------------
(* Properties of convert_units on the unit a variable arrives in *)

\* the grid a raw variable of the given kind holds once it is in standard
\* units (degC, mm/day): the same field in the other unit of its quantity
Standard(kind, mask) ==
    CASE kind \in {"K", "degC"} -> RawGrid("degC", mask)
      [] kind \in {"m", "mm"} -> RawGrid("mm", mask)
      [] kind \in {"m_dry", "mm_dry"} -> RawGrid("mm_dry", mask)

Converted == std_pc \in {"attrs", "save", "plot", "done", "crashed"}

\* C22: after convert_units, whatever unit a variable arrived in, tas is in
\* degrees Celsius (273.15 subtracted from Kelvin, Celsius unchanged) with
\* units 'degC', pr is in mm (metres multiplied by 1000, mm unchanged) with
\* units 'mm/day', and evspsbl has units 'mm/day'. (The original statement;
\* the code decides the unit from the mean of the first day, so
\* precipitation in mm with a first-day mean below 1 is multiplied by 1000,
\* and a variable whose first day is all NaN is never converted.)
C22_StandardUnits ==
    Converted =>
        \A n \in DOMAIN raw_ds :
            /\ n \in {"2m_temperature", "total_precipitation"} =>
                  \A k \in RawKinds(n) : \A m \in RawMasks :
                      raw_ds[n] = RawGrid(k, m) =>
                          std_ds.data[NewName(n)] = Standard(k, m)
            /\ n = "2m_temperature" => std_ds.units["tas"] = "degC"
            /\ n \in {"total_precipitation", "evaporation"} =>
                  std_ds.units[NewName(n)] = "mm/day"

\* C28: convert_units applied to its own output changes no value and no
\* units attribute. (The original statement; precipitation in metres with a
\* first-day mean below 0.001 m is still below 1 after the multiplication
\* and is multiplied by 1000 again.)
C28_Idempotent ==
    std_pc = "attrs" => convert_units(std_ds) = std_ds

----------------------------------------------------------------------------
(* Properties of the stores of step 03 over repeated runs *)

\* C27: after any sequence of runs, a trend store on disk was written by the
\* run of step 03 that wrote the climatology store on disk, and step 04 never
\* retrends a climatology with the trend parameters of another run. (The
\* original statement; a run without trend parameters rewrites the
\* climatology and leaves the trend store of an earlier run in place.)
C27_TrendOfSameRun ==
    /\ {S03.OUTPUT_PATH, S03.TREND_PATH} \subseteq disk =>
          store_run[S03.TREND_PATH] = store_run[S03.OUTPUT_PATH]
    /\ loaded04.retrend => loaded04.trend = loaded04.clim

----------------------------------------------------------------------------
(* Properties of the boundary extraction and of the region names *)

\* how many times a row occurs in a sequence of rows
Count(rows, r) == Cardinality({k \in 1..Len(rows) : rows[k] = r})

\* C21: for each level ADM0, ADM1, ADM2 the rows returned, and the rows
\* written to that level's file, are exactly the rows of the table with
\* shapegroup 'VNM' and that shapetype (each as often as the table has it);
\* rows of another country or another type are in no level, and no row is
\* in two levels.
C21_ExactlyTheLevelRows ==
    bnd_pc \in {"aggregate", "done"} =>
        /\ DOMAIN boundaries = LevelSet
        /\ \A level \in LevelSet :
            /\ parquet[S02_BoundsOutput(level)] = boundaries[level]
            /\ \A r \in BndRows :
                 Count(boundaries[level], r) =
                    IF r.shapegroup = "VNM" /\ r.shapetype = level
                    THEN Count(bnd_table, r) ELSE 0
        /\ \A r \in BndRows :
             Cardinality({level \in LevelSet : Count(boundaries[level], r) > 0}) <= 1

\* witness of C21: a table with a province of Vietnam, a province of another
\* country and a row of another type has been split; ADM1 holds one row
C21_Witness ==
    /\ bnd_pc = "done"
    /\ \E i, j, k \in 1..Len(bnd_table) :
        /\ bnd_table[i].shapegroup = "VNM" /\ bnd_table[i].shapetype = "ADM1"
        /\ bnd_table[j].shapegroup = "LAO" /\ bnd_table[j].shapetype = "ADM1"
        /\ bnd_table[k].shapetype = "ADM3"
        /\ boundaries["ADM1"] = <<bnd_table[i]>>
    /\ boundaries["ADM0"] = <<>> /\ boundaries["ADM2"] = <<>>
    /\ parquet[S02_BoundsOutput("ADM1")] = boundaries["ADM1"]

\* C30: for every geoid of a level's output, region_name is the geoname of
\* the boundary row whose geometry the column was aggregated with. (The
\* original statement; when several rows share a geoid the column is
\* aggregated with the first row's geometry and named after the last row.)
C30_NameOfAggregatedRow ==
    \A level \in DOMAIN agg_out :
        \A i \in 1..Len(agg_out[level].geoid) :
            \A k \in 1..Len(boundaries[level]) :
                boundaries[level][k].geometry = agg_out[level].geometry[i] =>
                    agg_out[level].region_name[i] = boundaries[level][k].geoname

----------------------------------------------------------------------------
(* Properties of the region selection and of the season count *)

\* the geoids of a list
Elems(seq) == {seq[k] : k \in 1..Len(seq)}

\* the dataset geoids whose boundary geoname is a coffee province
CoffeeGeoids ==
    {g \in Elems(plot_geoids) :
        \E k \in 1..Len(plot_gdf) :
            /\ plot_gdf[k].geoid = g
            /\ \A m \in 1..(k - 1) : plot_gdf[m].geoid # g
            /\ plot_gdf[k].geoname \in COFFEE_PROVINCES}

\* C24: once main() has set coffee_ids, it holds the dataset geoids whose
\* boundary geoname is in COFFEE_PROVINCES; when there is none, the warning
\* has been printed and it holds all dataset geoids; it is not empty when
\* the dataset has a region, and every plot selects exactly these regions.
C24_SelectionNeverEmpty ==
    plot_pc \in {"plot", "seasons", "title", "done"} =>
        /\ Len(plot_geoids) >= 1 => Len(coffee_ids) >= 1
        /\ IF CoffeeGeoids = {}
           THEN /\ coffee_ids = plot_geoids
                /\ "WARNING: No coffee regions found, using all regions" \in plot_printed
           ELSE /\ Elems(coffee_ids) = CoffeeGeoids
                /\ Len(coffee_ids) = Cardinality(CoffeeGeoids)
                /\ plot_printed = {}
        /\ \A f \in DOMAIN selections : selections[f] = coffee_ids

\* witness of C24: no dataset geoid is a coffee province, the warning was
\* printed, and all seven plots selected both regions of the dataset
C24_Witness ==
    /\ plot_pc = "done"
    /\ plot_geoids = <<"g1", "g2">>
    /\ CoffeeGeoids = {}
    /\ coffee_ids = <<"g1", "g2">>
    /\ plot_printed # {}
    /\ DOMAIN selections = Elems(PlotCalls)
    /\ selections["07_dayofyear_indices.png"] = <<"g1", "g2">>

\* C29: the season count in the title of plot_dayofyear_indices is the
\* number of seasons that went into the plotted climatology: the seasons
\* other than the current one with at least 360 valid days. (The original
\* statement; the title counts len(seasons) - 1, incomplete seasons
\* included, whether or not the current season is in the data.)
C29_TitleCountsClimatologySeasons ==
    n_historical # -1 =>
        /\ n_historical = Cardinality(all_season_data)
        /\ all_season_data =
              {s \in DOMAIN season_days :
                  s # current_start_year /\ season_days[s].valid >= CompleteDays}

====
